---------------------------- MODULE Spec2Model ----------------------------
(***************************************************************************)
(* Model of the geometry reconstruction and enrichment pipeline of         *)
(* src/data/process.py: elements_to_geodataframe builds Point, LineString, *)
(* Polygon and MultiPolygon features from Overpass nodes, ways and         *)
(* relations; filter_power_stations selects, deduplicates and projects the *)
(* facilities.                                                             *)
(*                                                                         *)
(* Coordinates are integer (lon, lat) pairs.  Geometry validity is the     *)
(* validity shapely/GEOS computes (is_valid), written out with integer     *)
(* orientation tests.  A Python exception is a value of the variable exc.  *)
(***************************************************************************)
EXTENDS Integers, Sequences, FiniteSets

VARIABLES
    elements,    \* data["elements"], the combined input of the builder
    features,    \* the builder's list of features when its loop ended
    at,          \* the index the builder's loop reached (Len + 1: all done)
    built,       \* the frame elements_to_geodataframe returned
    filtered,    \* the frame filter_power_stations returned
    refiltered,  \* the frame filter_power_stations returned for its own output
    assigned,    \* the stations frame assign_oblasts returned
    oblasts_gdf, \* the oblast polygons assign_oblasts returned
    gadm,        \* the boundary dataset assign_oblasts read
    matched,     \* the frame match_with_gppd returned
    df_gppd,     \* the reference database match_with_gppd read
    requests,    \* the requests.post calls made so far, with their responses
    written,     \* the output files written so far
    stage,       \* how far the run is
    exc,         \* the exception that ended the run, or "none"
    rng,         \* DataLoader: the noise numpy's generator gives after seed(42)
    data,        \* DataLoader: the table load_sample_data returned last
    calls,       \* DataLoader: the calls of load_sample_data so far
    energy_file, \* DataLoader: the content of energy_data.csv
    selected_oblast,     \* dashboard: the value of oblast-dropdown
    click_data,          \* dashboard: clickData of map-display
    reset,               \* dashboard: the reset argument of generate_map_figure
    figure,              \* dashboard: the figure generate_map_figure returned
    gppd_filter,         \* dashboard: the data of gppd-filter-store
    power_source_filter, \* dashboard: the data of power-source-filter-store
    substations_filter,  \* dashboard: the data of substations-filter-store
    selected_data,       \* dashboard: selectedData of map-display
    table                \* dashboard: the data of stations-table

pipelineVars == <<elements, features, at, built, filtered, refiltered, assigned,
                  oblasts_gdf, gadm, matched, df_gppd, requests, written, stage, exc>>

loaderVars == <<rng, data, calls, energy_file>>

dashVars == <<selected_oblast, click_data, reset, figure, gppd_filter,
              power_source_filter, substations_filter, selected_data, table>>

vars == <<pipelineVars, loaderVars, dashVars>>

(***************************************************************************)
(* Bounds of the input families.                                           *)
(***************************************************************************)
MaxWayNodes == 4
MaxRelationWayNodes == 2
MaxMembers == 2
MaxRows == 2
MaxTagged == 2
MaxRepeats == 2
MaxCalls == 6
MaxStreams == 7
MaxLasso == 2

(***************************************************************************)
(* Sequences helpers.                                                      *)
(***************************************************************************)
SeqsUpTo(S, n) == UNION {[1..k -> S] : k \in 0..n}

Last(s) == s[Len(s)]

RECURSIVE SelectIdx(_, _, _)
\* the indices i in lo..Len(s), in order, with keep[i]
SelectIdx(keep, lo, hi) ==
    IF lo > hi THEN <<>>
    ELSE (IF keep[lo] THEN <<lo>> ELSE <<>>) \o SelectIdx(keep, lo + 1, hi)

(***************************************************************************)
(* Planar geometry on integer coordinates.                                 *)
(***************************************************************************)
\* twice the signed area of triangle p, q, r
Orient(p, q, r) ==
    (q[1] - p[1]) * (r[2] - p[2]) - (q[2] - p[2]) * (r[1] - p[1])

Min2(a, b) == IF a < b THEN a ELSE b
Max2(a, b) == IF a > b THEN a ELSE b

\* r lies on the closed segment p-q
OnSegment(p, q, r) ==
    /\ Orient(p, q, r) = 0
    /\ Min2(p[1], q[1]) <= r[1] /\ r[1] <= Max2(p[1], q[1])
    /\ Min2(p[2], q[2]) <= r[2] /\ r[2] <= Max2(p[2], q[2])

\* the closed segments a-b and c-d share at least one point
SegmentsIntersect(a, b, c, d) ==
    \/ /\ Orient(c, d, a) * Orient(c, d, b) < 0
       /\ Orient(a, b, c) * Orient(a, b, d) < 0
    \/ OnSegment(c, d, a)
    \/ OnSegment(c, d, b)
    \/ OnSegment(a, b, c)
    \/ OnSegment(a, b, d)

\* the segments a-b and c-d (each of positive length) share more than one point
SegmentsOverlap(a, b, c, d) ==
    /\ Orient(a, b, c) = 0
    /\ Orient(a, b, d) = 0
    /\ Cardinality({p \in {a, b, c, d} : OnSegment(a, b, p) /\ OnSegment(c, d, p)}) >= 2

RECURSIVE RemoveRepeated(_)
\* consecutive repeated points removed (GEOS ignores them in validity tests)
RemoveRepeated(cs) ==
    IF Len(cs) <= 1 THEN cs
    ELSE IF cs[1] = cs[2] THEN RemoveRepeated(Tail(cs))
    ELSE <<cs[1]>> \o RemoveRepeated(Tail(cs))

\* shapely closes the shell of Polygon(coords) when coords is not closed
CloseRing(cs) == IF cs[1] = Last(cs) THEN cs ELSE Append(cs, cs[1])

\* the ring, closed, is a simple closed curve: a valid Polygon shell
RingValid(cs) ==
    LET r == RemoveRepeated(CloseRing(cs))
        n == Len(r) - 1
        Adjacent(i, j) == j = i + 1 \/ (i = 1 /\ j = n)
    IN  /\ n >= 3
        /\ \A i \in 1..n : \A j \in (i + 1)..n :
              IF Adjacent(i, j)
              THEN ~SegmentsOverlap(r[i], r[i + 1], r[j], r[j + 1])
              ELSE ~SegmentsIntersect(r[i], r[i + 1], r[j], r[j + 1])

\* the edges of a ring, as pairs of points
RingEdges(cs) ==
    LET r == RemoveRepeated(CloseRing(cs))
    IN  {<<r[i], r[i + 1]>> : i \in 1..(Len(r) - 1)}

RingVertices(cs) == {cs[i] : i \in 1..Len(cs)}

\* the line through edge e has all of ring q on its closed side away from ring p
Separates(e, p, q) ==
    \/ /\ \A v \in RingVertices(p) : Orient(e[1], e[2], v) >= 0
       /\ \A v \in RingVertices(q) : Orient(e[1], e[2], v) <= 0
    \/ /\ \A v \in RingVertices(p) : Orient(e[1], e[2], v) <= 0
       /\ \A v \in RingVertices(q) : Orient(e[1], e[2], v) >= 0

\* two valid convex rings whose interiors are disjoint (separating axis)
InteriorsDisjoint(p, q) ==
    \/ \E e \in RingEdges(p) : Separates(e, p, q)
    \/ \E e \in RingEdges(q) : Separates(e, q, p)

\* the boundaries of two rings meet in finitely many points only
BoundariesTouchFinitely(p, q) ==
    \A e \in RingEdges(p) : \A f \in RingEdges(q) :
        ~SegmentsOverlap(e[1], e[2], f[1], f[2])

(***************************************************************************)
(* shapely geometries: kind and the coordinate sequences of the parts.     *)
(***************************************************************************)
None == [kind |-> "None", parts |-> <<>>]

Point(lon, lat) == [kind |-> "Point", parts |-> << <<<<lon, lat>>>> >>]

LineString(coords) == [kind |-> "LineString", parts |-> <<coords>>]

Polygon(coords) == [kind |-> "Polygon", parts |-> <<CloseRing(coords)>>]

MultiPolygon(polys) ==
    [kind |-> "MultiPolygon", parts |-> [i \in 1..Len(polys) |-> polys[i].parts[1]]]

is_empty(geom) ==
    \/ Len(geom.parts) = 0
    \/ \A i \in 1..Len(geom.parts) : Len(geom.parts[i]) = 0

is_valid(geom) ==
    CASE geom.kind = "Point" -> TRUE
      [] geom.kind = "LineString" ->
            Len(RemoveRepeated(geom.parts[1])) >= 2
      [] geom.kind = "Polygon" -> RingValid(geom.parts[1])
      [] geom.kind = "MultiPolygon" ->
            /\ \A i \in 1..Len(geom.parts) : RingValid(geom.parts[i])
            /\ \A i \in 1..Len(geom.parts) : \A j \in (i + 1)..Len(geom.parts) :
                  /\ InteriorsDisjoint(geom.parts[i], geom.parts[j])
                  /\ BoundariesTouchFinitely(geom.parts[i], geom.parts[j])
      [] OTHER -> FALSE

(***************************************************************************)
(* Spatial predicates between a geometry and a convex polygon ring, as     *)
(* sjoin evaluates them, and the distance test of a buffered geometry.     *)
(***************************************************************************)
\* the vertices of all parts of a geometry
Vertices(geom) ==
    UNION {RingVertices(geom.parts[i]) : i \in 1..Len(geom.parts)}

\* the segments of all parts of a geometry (a Point has none)
Segments(geom) ==
    UNION {{<<geom.parts[i][k], geom.parts[i][k + 1]>> :
               k \in 1..(Len(geom.parts[i]) - 1)} : i \in 1..Len(geom.parts)}

\* p is in the closed convex polygon of the ring
InRing(p, ring) ==
    \/ \A e \in RingEdges(ring) : Orient(e[1], e[2], p) >= 0
    \/ \A e \in RingEdges(ring) : Orient(e[1], e[2], p) <= 0

\* p is in the interior of the convex polygon of the ring
StrictlyInRing(p, ring) ==
    \/ \A e \in RingEdges(ring) : Orient(e[1], e[2], p) > 0
    \/ \A e \in RingEdges(ring) : Orient(e[1], e[2], p) < 0

\* the segment s lies on the line of one edge of the ring
OnOneEdge(s, ring) ==
    \E e \in RingEdges(ring) :
        Orient(e[1], e[2], s[1]) = 0 /\ Orient(e[1], e[2], s[2]) = 0

\* predicate="within": no point of geom outside the polygon, and the
\* interiors meet
within(geom, ring) ==
    /\ \A v \in Vertices(geom) : InRing(v, ring)
    /\ CASE geom.kind = "Point" -> \A v \in Vertices(geom) : StrictlyInRing(v, ring)
         [] geom.kind = "LineString" ->
               \E s \in Segments(geom) : s[1] # s[2] /\ ~OnOneEdge(s, ring)
         [] OTHER -> TRUE

\* predicate="intersects": geom and the polygon share a point
intersects(geom, ring) ==
    \/ \E v \in Vertices(geom) : InRing(v, ring)
    \/ \E s \in Segments(geom) : \E e \in RingEdges(ring) :
          SegmentsIntersect(s[1], s[2], e[1], e[2])
    \/ /\ geom.kind \in {"Polygon", "MultiPolygon"}
       /\ \E i \in 1..Len(geom.parts) :
             \E v \in RingVertices(ring) : InRing(v, geom.parts[i])

Dot(a, b, c) == (b[1] - a[1]) * (c[1] - a[1]) + (b[2] - a[2]) * (c[2] - a[2])

Abs(x) == IF x < 0 THEN 0 - x ELSE x

\* o * o <= r * r * l2, computed without leaving 32 bits: with q and m the
\* quotient and the remainder of |o| by r, (q + m / r)^2 <= l2
NearLine(o, l2, r) ==
    IF r = 0 THEN o = 0
    ELSE LET q == Abs(o) \div r
             m == Abs(o) % r
         IN  IF (q + 1) * (q + 1) <= l2 THEN TRUE
             ELSE IF q * q > l2 THEN FALSE
             ELSE (m * m + r - 1) \div r <= (l2 - q * q) * r - 2 * q * m

\* p is at most r away from the closed segment a-b
NearSegment(p, a, b, r) ==
    IF a = b \/ Dot(a, b, p) <= 0 THEN Dot(a, p, p) <= r * r
    ELSE IF Dot(a, b, p) >= Dot(a, b, b) THEN Dot(b, p, p) <= r * r
    ELSE NearLine(Orient(a, b, p), Dot(a, b, b), r)

\* a buffer that holds the points at least r away from a vertex: C16 does not
\* hold of it
BufferOutside(geom, r, p) ==
    \E v \in Vertices(geom) : Dot(v, p, p) >= r * r

\* geom.buffer(r) intersects the point p: p is at most r away from geom
BufferIntersects(geom, r, p) ==
    \/ \E v \in Vertices(geom) : Dot(v, p, p) <= r * r
    \/ \E s \in Segments(geom) : NearSegment(p, s[1], s[2], r)
    \/ /\ geom.kind \in {"Polygon", "MultiPolygon"}
       /\ \E i \in 1..Len(geom.parts) : InRing(p, geom.parts[i])

(***************************************************************************)
(* Overpass elements.  lonlat is <<>> for an element without "lon"/"lat";  *)
(* tags is a function from the tag keys the element has to their values.   *)
(***************************************************************************)
NoTags == [k \in {} |-> "NaN"]

Node(id, lonlat, tags) ==
    [type |-> "node", id |-> id, lonlat |-> lonlat, nodes |-> <<>>,
     members |-> <<>>, tags |-> tags]

Way(id, nodes, tags) ==
    [type |-> "way", id |-> id, lonlat |-> <<>>, nodes |-> nodes,
     members |-> <<>>, tags |-> tags]

Relation(id, members, tags) ==
    [type |-> "relation", id |-> id, lonlat |-> <<>>, nodes |-> <<>>,
     members |-> members, tags |-> tags]

Member(type, ref, role) == [type |-> type, ref |-> ref, role |-> role]

\* a table in which the first element of an id wins: C28 does not hold of it
ByIdFirst(elems, type) ==
    LET idx == {i \in 1..Len(elems) : elems[i].type = type}
        ids == {elems[i].id : i \in idx}
    IN  [id \in ids |->
            elems[CHOOSE i \in idx :
                    /\ elems[i].id = id
                    /\ \A j \in idx : elems[j].id = id => i <= j]]

\* {el["id"]: el for el in elems if el["type"] == type}: the last one wins
ById(elems, type) ==
    LET idx == {i \in 1..Len(elems) : elems[i].type = type}
        ids == {elems[i].id : i \in idx}
    IN  [id \in ids |->
            elems[CHOOSE i \in idx :
                    /\ elems[i].id = id
                    /\ \A j \in idx : elems[j].id = id => j <= i]]

node_by_id(elems) == ById(elems, "node")

way_by_id(elems) == ById(elems, "way")

\* the references of a way that are keys of node_by_id, in order
Resolvable(nodes, nbi) == SelectSeq(nodes, LAMBDA n : n \in DOMAIN nbi)

\* node_by_id[n]["lon"] raises KeyError for a node element without coordinates
CoordsRaise(nodes, nbi) ==
    \E i \in 1..Len(nodes) :
        nodes[i] \in DOMAIN nbi /\ nbi[nodes[i]].lonlat = <<>>

\* [(node_by_id[n]["lon"], node_by_id[n]["lat"]) for n in nodes if n in node_by_id]
Coords(nodes, nbi) ==
    LET refs == Resolvable(nodes, nbi)
    IN  [i \in 1..Len(refs) |-> nbi[refs[i]].lonlat]

\* a builder that takes no way for closed: C1 does not hold of it
NeverClosed(coords) == FALSE

\* coords[0] == coords[-1]
Closed(coords) == coords[1] = Last(coords)

Ok(geom) == [exc |-> "none", geom |-> geom]

Raise(name) == [exc |-> name, geom |-> None]

\* a builder that takes the latitude for x: C20 does not hold of it
NodeGeomLatLon(el) ==
    IF el.lonlat # <<>> THEN Ok(Point(el.lonlat[2], el.lonlat[1])) ELSE Ok(None)

\* the branch for a node
NodeGeom(el) ==
    IF el.lonlat # <<>> THEN Ok(Point(el.lonlat[1], el.lonlat[2])) ELSE Ok(None)

\* LineString(coords) of a single coordinate raises in shapely
LineStringRaises(coords) == Len(coords) = 1

\* the branch for a way
WayGeom(el, nbi) ==
    IF CoordsRaise(el.nodes, nbi) THEN Raise("KeyError")
    ELSE LET coords == Coords(el.nodes, nbi)
         IN  IF coords = <<>> THEN Ok(None)
             ELSE IF Closed(coords) /\ Len(coords) >= 4
             THEN LET poly == Polygon(coords)
                  IN  IF is_valid(poly) /\ ~is_empty(poly) THEN Ok(poly) ELSE Ok(None)
             ELSE IF LineStringRaises(coords) THEN Raise("GEOSException")
             ELSE LET line == LineString(coords)
                  IN  IF is_valid(line) /\ ~is_empty(line) THEN Ok(line) ELSE Ok(None)

\* a builder that takes the members with role "outer" only: C3 does not hold
\* of it
MemberTakenOuterOnly(m, wbi) ==
    /\ m.type = "way"
    /\ m.role = "outer"
    /\ m.ref \in DOMAIN wbi

\* a member contributes a ring: a way with role "outer" or "" found in way_by_id
MemberTaken(m, wbi) ==
    /\ m.type = "way"
    /\ m.role \in {"outer", ""}
    /\ m.ref \in DOMAIN wbi

\* the ring a taken member appends to polys: <<poly>> or <<>>
MemberRing(m, nbi, wbi) ==
    LET coords == Coords(wbi[m.ref].nodes, nbi)
    IN  IF Len(coords) >= 3 /\ is_valid(Polygon(coords))
        THEN <<Polygon(coords)>>
        ELSE <<>>

RECURSIVE MemberLoop(_, _, _, _)
\* the loop over el["members"]: the polys list, or the exception that ends it
MemberLoop(members, nbi, wbi, polys) ==
    IF members = <<>> THEN [exc |-> "none", polys |-> polys]
    ELSE LET m == Head(members)
         IN  IF ~MemberTaken(m, wbi)
             THEN MemberLoop(Tail(members), nbi, wbi, polys)
             ELSE IF CoordsRaise(wbi[m.ref].nodes, nbi)
             THEN [exc |-> "KeyError", polys |-> polys]
             ELSE MemberLoop(Tail(members), nbi, wbi,
                             polys \o MemberRing(m, nbi, wbi))

\* the branch for a relation
RelationGeom(el, nbi, wbi) ==
    LET r == MemberLoop(el.members, nbi, wbi, <<>>)
    IN  IF r.exc # "none" THEN Raise(r.exc)
        ELSE IF r.polys = <<>> THEN Ok(None)
        ELSE IF Len(r.polys) > 1 THEN Ok(MultiPolygon(r.polys))
        ELSE Ok(r.polys[1])

\* geom after the type branches of one loop iteration
BuildGeom(el, nbi, wbi) ==
    CASE el.type = "node" -> NodeGeom(el)
      [] el.type = "way" -> WayGeom(el, nbi)
      [] el.type = "relation" -> RelationGeom(el, nbi, wbi)
      [] OTHER -> Ok(None)

\* a builder that keeps every geometry it constructed: C5 does not hold of it
KeepAny(geom) == geom # None

\* "Only keep elements with valid geometry"
Keep(geom) == geom # None /\ is_valid(geom) /\ ~is_empty(geom)

\* {"osm_id": el["id"], "osm_type": el["type"], **tags, "geometry": geom}
Feature(el, geom) ==
    [k \in {"osm_id", "osm_type", "geometry"} \cup DOMAIN el.tags |->
        IF k = "geometry" THEN geom
        ELSE IF k \in DOMAIN el.tags THEN el.tags[k]
        ELSE IF k = "osm_id" THEN el.id
        ELSE el.type]

(***************************************************************************)
(* Data frames: the set of columns and the rows in order, each with its    *)
(* index label and a value ("NaN" when missing) for every column.          *)
(***************************************************************************)
NaN == "NaN"

EmptyFrame == [columns |-> {}, rows |-> <<>>]

NoOblasts == [crs |-> "", rows |-> <<>>]

\* gpd.GeoDataFrame(features, crs="EPSG:4326")
GeoDataFrame(feats) ==
    LET cols == UNION {DOMAIN feats[i] : i \in 1..Len(feats)}
    IN  [columns |-> cols,
         rows |-> [i \in 1..Len(feats) |->
                     [index |-> i - 1,
                      vals |-> [c \in cols |->
                                  IF c \in DOMAIN feats[i] THEN feats[i][c] ELSE NaN]]]]

RECURSIVE BuildLoop(_, _, _, _, _)
\* the loop over data["elements"] from index i and the return after it: the
\* features list built, the frame returned and the exception raised, if any
BuildLoop(elems, i, nbi, wbi, feats) ==
    IF i > Len(elems)
    THEN [exc |-> "none", features |-> feats, at |-> i, frame |-> GeoDataFrame(feats)]
    ELSE LET r == BuildGeom(elems[i], nbi, wbi)
         IN  IF r.exc # "none"
             THEN [exc |-> r.exc, features |-> feats, at |-> i, frame |-> EmptyFrame]
             ELSE BuildLoop(elems, i + 1, nbi, wbi,
                            IF Keep(r.geom)
                            THEN Append(feats, Feature(elems[i], r.geom))
                            ELSE feats)

\* elements_to_geodataframe(data): the frame returned or the exception raised
elements_to_geodataframe(elems) ==
    BuildLoop(elems, 1, node_by_id(elems), way_by_id(elems), <<>>)

(***************************************************************************)
(* filter_power_stations.                                                  *)
(***************************************************************************)
\* an allow-list without the fuel source: C9 does not hold of it
cols_without_source ==
    {"osm_id", "osm_type", "power", "substation", "name", "name:en", "operator",
     "operator:en", "barrier", "voltage", "landuse", "plant:method",
     "plant:output:electricity", "geometry"}

cols_to_keep ==
    {"osm_id", "osm_type", "power", "substation", "name", "name:en", "operator",
     "operator:en", "barrier", "voltage", "landuse", "plant:method",
     "plant:output:electricity", "plant:source", "geometry"}

\* gdf.get("plant:source") is None without the column, and None.notna() raises
MaskRaises(gdf) == "plant:source" \notin gdf.columns

\* gdf.get("plant:source").notna() | (gdf.get("substation") == "transmission")
mask(gdf, i) ==
    \/ gdf.rows[i].vals["plant:source"] # NaN
    \/ /\ "substation" \in gdf.columns
       /\ gdf.rows[i].vals["substation"] = "transmission"

SameKey(r, s) ==
    r.vals["osm_id"] = s.vals["osm_id"] /\ r.vals["osm_type"] = s.vals["osm_type"]

\* a filter that drops no duplicate: C8 does not hold of it
SurvivesDuplicates(gdf, i) == mask(gdf, i)

\* gdf[mask].drop_duplicates(subset=["osm_id", "osm_type"]): row i survives
Survives(gdf, i) ==
    /\ mask(gdf, i)
    /\ \A j \in 1..(i - 1) : mask(gdf, j) => ~SameKey(gdf.rows[j], gdf.rows[i])

\* rename(columns={"name:en": "station_name_en"})
Rename(c) == IF c = "name:en" THEN "station_name_en" ELSE c

Unrename(c) == IF c = "station_name_en" THEN "name:en" ELSE c

\* gdf[[col for col in cols_to_keep if col in gdf.columns]], renamed
Project(gdf) == {Rename(c) : c \in gdf.columns \cap cols_to_keep}

\* filter_power_stations(gdf): the frame returned or the exception raised
filter_power_stations(gdf) ==
    IF MaskRaises(gdf) THEN [exc |-> "AttributeError", frame |-> EmptyFrame]
    ELSE IF ~({"osm_id", "osm_type"} \subseteq gdf.columns)
    THEN [exc |-> "KeyError", frame |-> EmptyFrame]
    ELSE LET keep == [i \in 1..Len(gdf.rows) |-> Survives(gdf, i)]
             idx == SelectIdx(keep, 1, Len(gdf.rows))
             cols == Project(gdf)
         IN  [exc |-> "none",
              frame |->
                 [columns |-> cols,
                  rows |-> [k \in 1..Len(idx) |->
                              [index |-> gdf.rows[idx[k]].index,
                               vals |-> [c \in cols |->
                                           gdf.rows[idx[k]].vals[Unrename(c)]]]]]]

(***************************************************************************)
(* Coordinate reference systems.  One coordinate unit of EPSG:4326 in the  *)
(* model is 0.001 degree; near 50 degrees north EPSG:3857 stretches it to  *)
(* MercatorX metres of easting and MercatorY metres of northing.           *)
(***************************************************************************)
MercatorX == 111
MercatorY == 173

ToMercator(p) == <<p[1] * MercatorX, p[2] * MercatorY>>

\* the geometry with every coordinate transformed from crs src to crs dst
to_crs(geom, src, dst) ==
    IF src = dst THEN geom
    ELSE [kind |-> geom.kind,
          parts |-> [i \in 1..Len(geom.parts) |->
                       [k \in 1..Len(geom.parts[i]) |-> ToMercator(geom.parts[i][k])]]]

(***************************************************************************)
(* assign_oblasts.  The boundary file is a crs and rows of NAME_1 and a    *)
(* polygon ring.                                                           *)
(***************************************************************************)
\* swap_dict, applied by Series.replace
swap_dict(name) ==
    CASE name = "Khmel'nyts'kyy" -> "Khmelnytskyi"
      [] name = "Donets'k" -> "Donetsk"
      [] name = "Dnipropetrovs'k" -> "Dnipropetrovsk"
      [] name = "Luhans'k" -> "Luhansk"
      [] name = "L'viv" -> "Lviv"
      [] name = "Sevastopol'" -> "Sevastopol"
      [] name = "Ivano-Frankivs'k" -> "Ivano-Frankivsk"
      [] name = "Ternopil'" -> "Ternopil"
      [] OTHER -> name

\* oblasts of which only the first polygon of a name is kept: C21 does not
\* hold of them
gdf_oblasts_dedup(file) ==
    [crs |-> file.crs,
     rows |-> LET first == SelectSeq([i \in 1..Len(file.rows) |-> i],
                              LAMBDA i : \A j \in 1..(i - 1) :
                                  swap_dict(file.rows[j].NAME_1)
                                      # swap_dict(file.rows[i].NAME_1))
              IN  [k \in 1..Len(first) |->
                     [oblast_name_en |-> swap_dict(file.rows[first[k]].NAME_1),
                      geometry |-> file.rows[first[k]].geometry]]]

\* gdf_oblasts after the rename, the column selection and the replace
gdf_oblasts(file) ==
    [crs |-> file.crs,
     rows |-> [i \in 1..Len(file.rows) |->
                 [oblast_name_en |-> swap_dict(file.rows[i].NAME_1),
                  geometry |-> file.rows[i].geometry]]]

\* a join that tests "intersects" in both passes: C11 does not hold of it
MatchesIntersects(geom, regions, predicate) ==
    SelectSeq([i \in 1..Len(regions.rows) |-> i],
              LAMBDA i : intersects(geom, regions.rows[i].geometry))

\* the regions, in order, that the predicate relates geom to
Matches(geom, regions, predicate) ==
    SelectSeq([i \in 1..Len(regions.rows) |-> i],
              LAMBDA i : IF predicate = "within"
                         THEN within(geom, regions.rows[i].geometry)
                         ELSE intersects(geom, regions.rows[i].geometry))

\* an inner join, which has no row for a station without a region: C13 does
\* not hold of it
JoinRowInner(row, cols, regions, predicate) ==
    LET m == Matches(row.vals["geometry"], regions, predicate)
    IN  [k \in 1..Len(m) |->
            [index |-> row.index,
             vals |-> [c \in cols \cup {"oblast_name_en"} |->
                         IF c = "oblast_name_en"
                         THEN regions.rows[m[k]].oblast_name_en
                         ELSE row.vals[c]]]]

\* the rows a left sjoin gives for one station row: one per matching region,
\* or one with a missing name
JoinRow(row, cols, regions, predicate) ==
    LET m == Matches(row.vals["geometry"], regions, predicate)
        With(name) ==
            [index |-> row.index,
             vals |-> [c \in cols \cup {"oblast_name_en"} |->
                         IF c = "oblast_name_en" THEN name ELSE row.vals[c]]]
    IN  IF m = <<>> THEN <<With(NaN)>>
        ELSE [k \in 1..Len(m) |-> With(regions.rows[m[k]].oblast_name_en)]

RECURSIVE sjoin(_, _, _, _)
\* gpd.sjoin(rows, regions, how="left", predicate=...) without index_right
sjoin(rows, cols, regions, predicate) ==
    IF rows = <<>> THEN <<>>
    ELSE JoinRow(Head(rows), cols, regions, predicate)
         \o sjoin(Tail(rows), cols, regions, predicate)

\* a second pass that fills in nothing: C12 does not hold of it
NoName(joined, label) == NaN

\* a second pass that keeps the last match: C25 does not hold of it
LastName(joined, label) ==
    LET named == SelectSeq(joined, LAMBDA r : r.index = label
                                              /\ r.vals["oblast_name_en"] # NaN)
    IN  IF named = <<>> THEN NaN ELSE named[Len(named)].vals["oblast_name_en"]

\* groupby(index).first()["oblast_name_en"] for one index label
FirstName(joined, label) ==
    LET named == SelectSeq(joined, LAMBDA r : r.index = label
                                              /\ r.vals["oblast_name_en"] # NaN)
    IN  IF named = <<>> THEN NaN ELSE named[1].vals["oblast_name_en"]

\* assign_oblasts(stations_gdf): the stations with oblast_name_en and the
\* oblast polygons
assign_oblasts(stations_gdf, file) ==
    LET oblasts == gdf_oblasts(file)
        cols == stations_gdf.columns
        stations ==
            [k \in 1..Len(stations_gdf.rows) |->
                [index |-> stations_gdf.rows[k].index,
                 vals |-> [c \in cols |->
                             IF c = "geometry"
                             THEN to_crs(stations_gdf.rows[k].vals[c],
                                         "EPSG:4326", oblasts.crs)
                             ELSE stations_gdf.rows[k].vals[c]]]]
        matched_within == sjoin(stations, cols, oblasts, "within")
        unmatched ==
            SelectSeq(matched_within, LAMBDA r : r.vals["oblast_name_en"] = NaN)
        dropped ==
            [k \in 1..Len(unmatched) |->
                [index |-> unmatched[k].index,
                 vals |-> [c \in cols |-> unmatched[k].vals[c]]]]
        matched_intersects == sjoin(dropped, cols, oblasts, "intersects")
        labels == {unmatched[k].index : k \in 1..Len(unmatched)}
    IN  [stations |->
            [columns |-> cols \cup {"oblast_name_en"},
             rows |-> [k \in 1..Len(matched_within) |->
                         IF matched_within[k].index \in labels
                         THEN [matched_within[k] EXCEPT
                                  !.vals["oblast_name_en"] =
                                      FirstName(matched_intersects,
                                                matched_within[k].index)]
                         ELSE matched_within[k]]],
         oblasts |-> oblasts]

(***************************************************************************)
(* match_with_gppd.  The reference database is rows of longitude,          *)
(* latitude and country_long.                                              *)
(***************************************************************************)
BufferRadius == 500

\* the points of the rows of every country: C14 does not hold of it
gdf_gppd_all(csv) ==
    {ToMercator(<<csv[i].longitude, csv[i].latitude>>) : i \in 1..Len(csv)}

\* the points of the rows whose country_long is "Ukraine", in EPSG:3857
gdf_gppd_ua(csv) ==
    {ToMercator(<<csv[i].longitude, csv[i].latitude>>) :
        i \in {j \in 1..Len(csv) : csv[j].country_long = "Ukraine"}}

\* flags whose missing values are filled with True: C15 does not hold of it
overlap_flags_fill_true(gdf, label, points) ==
    \E k \in 1..Len(gdf.rows) : gdf.rows[k].index = label

\* overlap_flags for the rows with an index label: some point intersects the
\* buffer of some row with that label
overlap_flags(gdf, label, points) ==
    \E k \in 1..Len(gdf.rows) :
        /\ gdf.rows[k].index = label
        /\ \E p \in points :
              BufferIntersects(to_crs(gdf.rows[k].vals["geometry"],
                                      "EPSG:4326", "EPSG:3857"),
                               BufferRadius, p)

\* a match that returns the frame it projected for the join: C29 does not
\* hold of it
match_with_gppd_projected(ukraine_gdf, csv) ==
    [columns |-> ukraine_gdf.columns \cup {"gppd_overlap"},
     rows |-> [k \in 1..Len(ukraine_gdf.rows) |->
                 [index |-> ukraine_gdf.rows[k].index,
                  vals |-> [c \in ukraine_gdf.columns \cup {"gppd_overlap"} |->
                              IF c = "gppd_overlap"
                              THEN overlap_flags(ukraine_gdf,
                                                 ukraine_gdf.rows[k].index,
                                                 gdf_gppd_ua(csv))
                              ELSE IF c = "geometry"
                              THEN to_crs(ukraine_gdf.rows[k].vals[c],
                                          "EPSG:4326", "EPSG:3857")
                              ELSE ukraine_gdf.rows[k].vals[c]]]]]

\* match_with_gppd(ukraine_gdf): the copy with the column gppd_overlap
match_with_gppd(ukraine_gdf, csv) ==
    [columns |-> ukraine_gdf.columns \cup {"gppd_overlap"},
     rows |-> [k \in 1..Len(ukraine_gdf.rows) |->
                 [index |-> ukraine_gdf.rows[k].index,
                  vals |-> [c \in ukraine_gdf.columns \cup {"gppd_overlap"} |->
                              IF c = "gppd_overlap"
                              THEN overlap_flags(ukraine_gdf,
                                                 ukraine_gdf.rows[k].index,
                                                 gdf_gppd_ua(csv))
                              ELSE ukraine_gdf.rows[k].vals[c]]]]]

(***************************************************************************)
(* The three programs of the repository share no state: while one runs,    *)
(* the state of the others is idle.                                        *)
(***************************************************************************)
NoData == [columns |-> {}, rows |-> <<>>]

IdleLoader ==
    /\ rng = <<>>
    /\ data = NoData
    /\ calls = 0
    /\ energy_file = NoData

\* a clickData or selectedData that is None, and one that is a dict with the
\* keys given and, under "points", the customdata of each point
NoEvent == [is_none |-> TRUE, keys |-> {}, points |-> <<>>]

Event(keys, points) == [is_none |-> FALSE, keys |-> keys, points |-> points]

NoFigure == [view |-> "none", center |-> <<>>, zoom |-> 0, markers |-> {}]

IdleDash ==
    /\ selected_oblast = "None"
    /\ click_data = NoEvent
    /\ reset = FALSE
    /\ figure = NoFigure
    /\ gppd_filter = FALSE
    /\ power_source_filter = "all"
    /\ substations_filter = TRUE
    /\ selected_data = NoEvent
    /\ table = <<>>

(***************************************************************************)
(* The input families.                                                     *)
(***************************************************************************)
PlantTags(source) ==
    [k \in {"power", "plant:source"} |-> IF k = "power" THEN "plant" ELSE source]

SubstationTags(kind) ==
    [k \in {"power", "substation"} |-> IF k = "power" THEN "substation" ELSE kind]

\* nodes 1..5 carry coordinates, node 6 has none; no element has id 9
NodeElements ==
    <<Node(1, <<0, 0>>, SubstationTags("transmission")),
      Node(2, <<2, 0>>, NoTags),
      Node(3, <<0, 2>>, NoTags),
      Node(4, <<4, 0>>, NoTags),
      Node(5, <<2, 2>>, NoTags),
      Node(6, <<>>, NoTags)>>

\* the node references a drawn way is made of
WayRefs == {1, 2, 3, 6, 9}

\* way 2 is a fixed triangle that touches the triangle 1-2-3 in node 2 only
Way2 == Way(2, <<2, 4, 5, 2>>, NoTags)

\* the members a drawn relation is made of; no way has id 9
MemberChoices ==
    {Member("way", 1, "outer"), Member("way", 2, ""), Member("way", 2, "inner"),
     Member("way", 9, "outer"), Member("node", 1, "outer")}

\* the relation of two outer ways: the drawn way and the fixed triangle
TwoOuter == <<Member("way", 1, "outer"), Member("way", 2, "")>>

\* the batches drawn: any way with the relation TwoOuter, and any relation
\* with a way of at most MaxRelationWayNodes references
Batch(nodes, members) ==
    NodeElements
    \o <<Way(1, nodes, PlantTags("coal")), Way2>>
    \o <<Relation(1, members, PlantTags("hydro"))>>

\* the node of end-to-end scenario 1: longitude 30, latitude 50
ScenarioNode == Node(1, <<30, 50>>, PlantTags("solar"))

\* the batches of nodes alone: the scenario node, the same node without
\* coordinates, and the scenario node followed by a node without coordinates
NodeBatches ==
    {<<ScenarioNode>>,
     <<Node(1, <<>>, PlantTags("solar"))>>,
     <<ScenarioNode, Node(2, <<>>, PlantTags("wind"))>>}

Rectangle(x1, y1, x2, y2) ==
    <<<<x1, y1>>, <<x2, y1>>, <<x2, y2>>, <<x1, y2>>, <<x1, y1>>>>

\* the boundary files drawn: two oblasts that share the border through node 2,
\* one oblast to the east of nodes 1, 2 and 3, an oblast that lies inside
\* another one, and two oblasts whose names differ in spelling only
GadmFiles ==
    {[crs |-> "EPSG:4326",
      rows |-> <<[NAME_1 |-> "L'viv", geometry |-> Rectangle(0 - 1, 0 - 1, 2, 3)],
                 [NAME_1 |-> "Kyiv", geometry |-> Rectangle(2, 0 - 1, 5, 3)]>>],
     [crs |-> "EPSG:4326",
      rows |-> <<[NAME_1 |-> "Donets'k", geometry |-> Rectangle(3, 0 - 1, 5, 3)]>>],
     [crs |-> "EPSG:4326",
      rows |-> <<[NAME_1 |-> "Kiev", geometry |-> Rectangle(0 - 2, 0 - 2, 6, 6)],
                 [NAME_1 |-> "Kiev City", geometry |-> Rectangle(0 - 1, 0 - 1, 1, 1)]>>],
     [crs |-> "EPSG:4326",
      rows |-> <<[NAME_1 |-> "Lviv", geometry |-> Rectangle(0 - 1, 0 - 1, 1, 3)],
                 [NAME_1 |-> "L'viv", geometry |-> Rectangle(1, 0 - 1, 5, 3)]>>]}

\* the reference databases drawn: a plant beside node 1 and a far one, a
\* database without a Ukrainian plant, a plant 5 units to the west of node 1
\* with two plants beside way 2, and two plants beside node 1
GppdFiles ==
    {<<[longitude |-> 1, latitude |-> 1, country_long |-> "Ukraine"],
       [longitude |-> 40, latitude |-> 40, country_long |-> "Ukraine"]>>,
     <<[longitude |-> 1, latitude |-> 1, country_long |-> "Poland"]>>,
     <<[longitude |-> 0 - 5, latitude |-> 0, country_long |-> "Ukraine"],
       [longitude |-> 5, latitude |-> 1, country_long |-> "Ukraine"],
       [longitude |-> 6, latitude |-> 1, country_long |-> "Ukraine"]>>,
     <<[longitude |-> 1, latitude |-> 1, country_long |-> "Ukraine"],
       [longitude |-> 0, latitude |-> 1, country_long |-> "Ukraine"]>>}

(***************************************************************************)
(* The pipeline of main(): build, then filter.                             *)
(***************************************************************************)
Init ==
    /\ \/ \E nodes \in SeqsUpTo(WayRefs, MaxWayNodes) :
          \E members \in SeqsUpTo(MemberChoices, MaxMembers) :
             /\ Len(nodes) <= MaxRelationWayNodes \/ members = TwoOuter
             /\ elements = Batch(nodes, members)
       \/ elements \in NodeBatches
    /\ features = <<>>
    /\ at = 0
    /\ built = EmptyFrame
    /\ filtered = EmptyFrame
    /\ refiltered = EmptyFrame
    /\ assigned = EmptyFrame
    /\ oblasts_gdf = NoOblasts
    /\ gadm = NoOblasts
    /\ matched = EmptyFrame
    /\ df_gppd = <<>>
    /\ requests = <<>>
    /\ written = {}
    /\ stage = "fetched"
    /\ exc = "none"
    /\ IdleLoader
    /\ IdleDash

\* gdf = elements_to_geodataframe(combined_data)
Build ==
    /\ stage = "fetched"
    /\ \E r \in {elements_to_geodataframe(elements)} :
           /\ features' = r.features
           /\ at' = r.at
           /\ built' = r.frame
           /\ exc' = r.exc
           /\ stage' = IF r.exc = "none" THEN "built" ELSE "build_raised"
    /\ UNCHANGED <<elements, filtered, refiltered, assigned, oblasts_gdf, matched,
                   df_gppd, requests, written, gadm,
                   loaderVars, dashVars>>

\* gdf = filter_power_stations(gdf)
Filter ==
    /\ stage = "built"
    /\ \E r \in {filter_power_stations(built)} :
           /\ filtered' = r.frame
           /\ exc' = r.exc
           /\ stage' = IF r.exc = "none" THEN "filtered" ELSE "filter_raised"
    /\ UNCHANGED <<elements, features, at, built, refiltered, assigned,
                   oblasts_gdf, matched, df_gppd, requests, written, gadm,
                   loaderVars, dashVars>>

\* gdf, oblasts_gdf = assign_oblasts(gdf), with the boundary file it reads, or
\* the error of gpd.read_file when the download fails
Assign ==
    /\ stage = "filtered"
    /\ \/ \E file \in GadmFiles :
          \E r \in {assign_oblasts(filtered, file)} :
              /\ assigned' = r.stations
              /\ oblasts_gdf' = r.oblasts
              /\ gadm' = file
              /\ stage' = "assigned"
              /\ exc' = exc
       \/ /\ stage' = "assign_raised"
          /\ exc' = "URLError"
          /\ UNCHANGED <<assigned, oblasts_gdf, gadm>>
    /\ UNCHANGED <<elements, features, at, built, filtered, refiltered, matched,
                   df_gppd, requests, written,
                   loaderVars, dashVars>>

\* gdf = match_with_gppd(gdf), with the reference database it reads, or the
\* error of pd.read_csv when the download fails
Match ==
    /\ stage = "assigned"
    /\ \/ \E csv \in GppdFiles :
             /\ matched' = match_with_gppd(assigned, csv)
             /\ df_gppd' = csv
             /\ stage' = "matched"
             /\ exc' = exc
       \/ /\ stage' = "match_raised"
          /\ exc' = "URLError"
          /\ UNCHANGED <<matched, df_gppd, gadm,
                   loaderVars, dashVars>>
    /\ UNCHANGED <<elements, features, at, built, filtered, refiltered, assigned,
                   oblasts_gdf, requests, written, gadm,
                   loaderVars, dashVars>>

Next == Build \/ Filter \/ Assign \/ Match

Spec == Init /\ [][Next]_vars

(***************************************************************************)
(* filter_power_stations as a function of drawn frames: applied once, and  *)
(* once more to its own output.  A frame has at least one feature.         *)
(***************************************************************************)
\* the tags a drawn feature carries
FilterTags ==
    {[k \in keys |->
        CASE k = "plant:source" -> "solar"
          [] k = "substation" -> sub
          [] k = "name:en" -> "Kakhovka HPP"
          [] OTHER -> "Q1"] :
       keys \in {ks \in SUBSET {"plant:source", "substation", "name:en", "wikidata"} :
                    ("name:en" \in ks) = ("wikidata" \in ks)},
       sub \in {"transmission", "distribution"}}

\* the elements a drawn feature is built from: a node and a way with the same
\* id, and the same way once more with another geometry
FilterElements ==
    {Node(1, <<0, 0>>, t) : t \in FilterTags}
    \cup {Way(1, <<1, 2>>, t) : t \in FilterTags}
    \cup {Way(1, <<1, 2, 3, 1>>, t) : t \in FilterTags}

FilterFeatures ==
    {Feature(el, BuildGeom(el, node_by_id(NodeElements), way_by_id(NodeElements)).geom) :
        el \in FilterElements}

InitFilter ==
    /\ elements = <<>>
    /\ features \in SeqsUpTo(FilterFeatures, MaxRows) \ {<<>>}
    /\ at = 0
    /\ built = GeoDataFrame(features)
    /\ filtered = EmptyFrame
    /\ refiltered = EmptyFrame
    /\ assigned = EmptyFrame
    /\ oblasts_gdf = NoOblasts
    /\ gadm = NoOblasts
    /\ matched = EmptyFrame
    /\ df_gppd = <<>>
    /\ requests = <<>>
    /\ written = {}
    /\ stage = "built"
    /\ exc = "none"
    /\ IdleLoader
    /\ IdleDash

\* filter_power_stations(filter_power_stations(gdf))
Refilter ==
    /\ stage = "filtered"
    /\ \E r \in {filter_power_stations(filtered)} :
           /\ refiltered' = r.frame
           /\ exc' = r.exc
           /\ stage' = IF r.exc = "none" THEN "refiltered" ELSE "refilter_raised"
    /\ UNCHANGED <<elements, features, at, built, filtered, assigned,
                   oblasts_gdf, matched, df_gppd, requests, written, gadm,
                   loaderVars, dashVars>>

NextFilter == Filter \/ Refilter

FilterSpec == InitFilter /\ [][NextFilter]_vars

(***************************************************************************)
(* The builder and the filter on a combined input in which elements        *)
(* repeat: "out body; >; out skel" gives an element once with its tags and *)
(* once as a skeleton, and a critical relation is in the bulk answer too.  *)
(***************************************************************************)
\* node 1 as a plant, moved and retagged, as a skeleton, and without
\* coordinates
Node1Versions ==
    {Node(1, <<0, 0>>, PlantTags("solar")),
     Node(1, <<4, 0>>, PlantTags("wind")),
     Node(1, <<0, 0>>, NoTags),
     Node(1, <<>>, PlantTags("solar"))}

\* way 1 as a plant, as a skeleton, and as a plant whose ring starts at node 2
Way1Versions ==
    {Way(1, <<1, 2, 3, 1>>, PlantTags("coal")),
     Way(1, <<1, 2, 3, 1>>, NoTags),
     Way(1, <<2, 3, 1, 2>>, PlantTags("gas"))}

\* the relation of way 1
Relation1 == Relation(1, <<Member("way", 1, "outer")>>, PlantTags("hydro"))

InitRepeats ==
    /\ \E a \in Node1Versions : \E w \in Way1Versions :
       \E tail \in SeqsUpTo(Node1Versions \cup Way1Versions \cup {Relation1}, MaxRepeats) :
          elements = <<a, Node(2, <<2, 0>>, NoTags), Node(3, <<0, 2>>, NoTags), w>>
                     \o tail
    /\ features = <<>>
    /\ at = 0
    /\ built = EmptyFrame
    /\ filtered = EmptyFrame
    /\ refiltered = EmptyFrame
    /\ assigned = EmptyFrame
    /\ oblasts_gdf = NoOblasts
    /\ gadm = NoOblasts
    /\ matched = EmptyFrame
    /\ df_gppd = <<>>
    /\ requests = <<>>
    /\ written = {}
    /\ stage = "fetched"
    /\ exc = "none"
    /\ IdleLoader
    /\ IdleDash

NextRepeats == Build \/ Filter

RepeatSpec == InitRepeats /\ [][NextRepeats]_vars

(***************************************************************************)
(* The builder and the filter on nodes whose tags have the keys of the     *)
(* feature's own fields.  A tag value is a string and is never equal to an *)
(* element id, which is an integer: the value of a tag "osm_id" is written *)
(* as a negative number, which no element has for an id.                   *)
(***************************************************************************)
\* the tags of a solar plant with the keys of extra as well
TagsWith(extra) ==
    [k \in {"power", "plant:source"} \cup extra |->
        CASE k = "power" -> "plant"
          [] k = "plant:source" -> "solar"
          [] k = "osm_id" -> 0 - 99
          [] k = "osm_type" -> "way"
          [] OTHER -> "POINT (0 0)"]

TaggedNodes ==
    {Node(id, <<30, 50>>, TagsWith(extra)) :
        id \in {1, 2}, extra \in {{}, {"osm_id"}, {"osm_type"}, {"geometry"}}}
    \cup {Node(3, <<>>, TagsWith({}))}

InitTags ==
    /\ elements \in SeqsUpTo(TaggedNodes, MaxTagged) \ {<<>>}
    /\ features = <<>>
    /\ at = 0
    /\ built = EmptyFrame
    /\ filtered = EmptyFrame
    /\ refiltered = EmptyFrame
    /\ assigned = EmptyFrame
    /\ oblasts_gdf = NoOblasts
    /\ gadm = NoOblasts
    /\ matched = EmptyFrame
    /\ df_gppd = <<>>
    /\ requests = <<>>
    /\ written = {}
    /\ stage = "fetched"
    /\ exc = "none"
    /\ IdleLoader
    /\ IdleDash

NextTags == Build \/ Filter

TagSpec == InitTags /\ [][NextTags]_vars

(***************************************************************************)
(* The network: fetch_overpass_data, fetch_critical_relations and the run  *)
(* of main() from its first request to its last file.  A response is what  *)
(* requests.post met: a timeout, a connection error, or a status and a     *)
(* body, which is a JSON document with "elements" or is not JSON.          *)
(***************************************************************************)
OverpassTimeout == 180

critical_relations == <<7317657>>

Response(status, body) == [outcome |-> "response", status |-> status, body |-> body]

NoResponse(outcome) ==
    [outcome |-> outcome, status |-> 0, body |-> [json |-> FALSE, elements |-> <<>>]]

JsonBody(elems) == [json |-> TRUE, elements |-> elems]

NotJson == [json |-> FALSE, elements |-> <<>>]

\* r.raise_for_status() raises HTTPError for a status from 400 to 599
raise_for_status(resp) == 400 <= resp.status /\ resp.status < 600

\* fetch_overpass_data(query) when the network answers resp: the requests it
\* made, and the data["elements"] it returned or the exception it raised
fetch_overpass_data(resp) ==
    [requests |-> <<[timeout |-> OverpassTimeout, response |-> resp]>>,
     exc |-> CASE resp.outcome = "timeout" -> "Timeout"
               [] resp.outcome = "connection_error" -> "ConnectionError"
               [] raise_for_status(resp) -> "HTTPError"
               [] ~resp.body.json -> "JSONDecodeError"
               [] OTHER -> "none",
     data |-> IF resp.outcome = "response" /\ ~raise_for_status(resp) /\ resp.body.json
              THEN resp.body.elements
              ELSE <<>>]

RECURSIVE CriticalLoop(_, _, _, _)
\* the loop over osm_ids from index i, resps[i] answering the query of
\* osm_ids[i], and the flattening after it
CriticalLoop(osm_ids, resps, i, acc) ==
    IF i > Len(osm_ids) THEN acc
    ELSE LET r == fetch_overpass_data(resps[i])
         IN  IF r.exc # "none"
             THEN [requests |-> acc.requests \o r.requests, exc |-> r.exc,
                   data |-> <<>>]
             ELSE CriticalLoop(osm_ids, resps, i + 1,
                               [requests |-> acc.requests \o r.requests,
                                exc |-> "none", data |-> acc.data \o r.data])

\* fetch_critical_relations(osm_ids)
fetch_critical_relations(osm_ids, resps) ==
    CriticalLoop(osm_ids, resps, 1, [requests |-> <<>>, exc |-> "none", data |-> <<>>])

\* the statuses, the bodies and the responses drawn
Statuses == {200, 300, 404, 500}

\* the bulk answers drawn: a plant node alone, a batch with a closed way, and
\* a batch whose way has one node
BulkElements ==
    {<<ScenarioNode>>,
     Batch(<<1, 2, 3, 1>>, TwoOuter),
     Batch(<<1>>, TwoOuter)}

\* the answer to the query of a critical relation: the relation alone
CriticalElements ==
    {<<Relation(critical_relations[1], TwoOuter, PlantTags("hydro"))>>}

Responses(elems) ==
    {Response(st, b) : st \in Statuses, b \in {NotJson} \cup {JsonBody(e) : e \in elems}}
    \cup {NoResponse("timeout"), NoResponse("connection_error")}

\* the files main() writes, in order
OutputFiles == <<"power_stations_with_oblasts.geojson", "ukraine_oblasts.geojson">>

InitMain ==
    /\ elements = <<>>
    /\ features = <<>>
    /\ at = 0
    /\ built = EmptyFrame
    /\ filtered = EmptyFrame
    /\ refiltered = EmptyFrame
    /\ assigned = EmptyFrame
    /\ oblasts_gdf = NoOblasts
    /\ gadm = NoOblasts
    /\ matched = EmptyFrame
    /\ df_gppd = <<>>
    /\ requests = <<>>
    /\ written = {}
    /\ stage = "start"
    /\ exc = "none"
    /\ IdleLoader
    /\ IdleDash

\* bulk_data = fetch_overpass_data(bulk_query); elements holds its elements
FetchBulk ==
    /\ stage = "start"
    /\ \E resp \in Responses(BulkElements) :
       \E r \in {fetch_overpass_data(resp)} :
           /\ requests' = requests \o r.requests
           /\ elements' = r.data
           /\ exc' = r.exc
           /\ stage' = IF r.exc = "none" THEN "bulk_fetched" ELSE "fetch_raised"
    /\ UNCHANGED <<features, at, built, filtered, refiltered, assigned,
                   oblasts_gdf, matched, df_gppd, written, gadm,
                   loaderVars, dashVars>>

\* critical_data = fetch_critical_relations(critical_relations), and
\* all_elements = bulk_data["elements"] + critical_data["elements"]
FetchCritical ==
    /\ stage = "bulk_fetched"
    /\ \E resps \in [1..Len(critical_relations) -> Responses(CriticalElements)] :
       \E r \in {fetch_critical_relations(critical_relations, resps)} :
           /\ requests' = requests \o r.requests
           /\ elements' = elements \o r.data
           /\ exc' = r.exc
           /\ stage' = IF r.exc = "none" THEN "fetched" ELSE "fetch_raised"
    /\ UNCHANGED <<features, at, built, filtered, refiltered, assigned,
                   oblasts_gdf, matched, df_gppd, written, gadm,
                   loaderVars, dashVars>>

\* a run that writes its files before the reference database is read: C18
\* does not hold of it
SaveEarly ==
    /\ stage = "assigned"
    /\ written' = {OutputFiles[k] : k \in 1..Len(OutputFiles)}
    /\ stage' = "saved"
    /\ UNCHANGED <<elements, features, at, built, filtered, refiltered, assigned,
                   oblasts_gdf, matched, df_gppd, requests, exc, gadm,
                   loaderVars, dashVars>>

\* gdf.to_file(stations_path) and oblasts_gdf.to_file(oblasts_path): n files
\* are written before a write fails, or both are
Save ==
    /\ stage = "matched"
    /\ \E n \in 0..Len(OutputFiles) :
          /\ written' = written \cup {OutputFiles[k] : k \in 1..n}
          /\ stage' = IF n = Len(OutputFiles) THEN "saved" ELSE "save_raised"
          /\ exc' = IF n = Len(OutputFiles) THEN exc ELSE "OSError"
    /\ UNCHANGED <<elements, features, at, built, filtered, refiltered, assigned,
                   oblasts_gdf, matched, df_gppd, requests, gadm,
                   loaderVars, dashVars>>

NextMain == FetchBulk \/ FetchCritical \/ Build \/ Filter \/ Assign \/ Match \/ Save

MainSpec == InitMain /\ [][NextMain]_vars

(***************************************************************************)
(* DataLoader.  A table is its columns and its rows; a date is its number  *)
(* of days after 2023-01-01; a number is rounded to an integer.  The       *)
(* values numpy's generator gives after seed(42) are not computed: rng is  *)
(* one of a family of streams, the same at every call.                     *)
(***************************************************************************)
periods == 365

base_production == 100

base_consumption == 95

\* pd.date_range('2023-01-01', periods=n, freq='D')
date_range(n) == [k \in 1..n |-> k - 1]

\* a range of 364 days: C24 does not hold of it
load_sample_dates_short(n) == [k \in 1..(n - 1) |-> k - 1]

\* the dates of the sample
load_sample_dates(n) == date_range(n)

\* np.sin(2 * np.pi * k / 365) * 10, by Bhaskara's rational approximation
seasonal_factor(k) ==
    LET d == (360 * k) \div periods
        h == IF d < 180 THEN d ELSE d - 180
        v == (40 * h * (180 - h)) \div (40500 - h * (180 - h))
    IN  IF d < 180 THEN v ELSE 0 - v

\* Series.clip(lower=0)
clip(x) == IF x < 0 THEN 0 ELSE x

\* the streams: values from -5 to 5, read in the order of the draws
NoiseStreams == {[n \in 0..(5 * periods - 1) |-> ((a * n) % 11) - 5] : a \in 0..MaxStreams}

\* load_sample_data(): the table returned when the generator gives stream
load_sample_data(stream) ==
    LET dates == load_sample_dates(periods)
    IN  [columns |-> {"date", "energy_production", "energy_consumption",
                      "renewable_production", "nuclear_production",
                      "thermal_production"},
         rows |-> [k \in 1..Len(dates) |->
                     [date |-> dates[k],
                      energy_production |->
                          clip(base_production + seasonal_factor(k - 1) + stream[k - 1]),
                      energy_consumption |->
                          clip(base_consumption + (8 * seasonal_factor(k - 1)) \div 10
                               + (3 * stream[periods + k - 1]) \div 5),
                      renewable_production |-> 20 + 2 * stream[2 * periods + k - 1],
                      nuclear_production |-> 40 + 2 * stream[3 * periods + k - 1],
                      thermal_production |-> 30 + 2 * stream[4 * periods + k - 1]]]]

IdlePipeline ==
    /\ elements = <<>>
    /\ features = <<>>
    /\ at = 0
    /\ built = EmptyFrame
    /\ filtered = EmptyFrame
    /\ refiltered = EmptyFrame
    /\ assigned = EmptyFrame
    /\ oblasts_gdf = NoOblasts
    /\ gadm = NoOblasts
    /\ matched = EmptyFrame
    /\ df_gppd = <<>>
    /\ requests = <<>>
    /\ written = {}
    /\ stage = "idle"
    /\ exc = "none"

\* DataLoader() with no energy_data.csv in its directory
InitLoader ==
    /\ rng \in NoiseStreams
    /\ data = NoData
    /\ calls = 0
    /\ energy_file = NoData
    /\ IdlePipeline
    /\ IdleDash

\* data = loader.load_sample_data()
LoadSampleData ==
    /\ calls < MaxCalls
    /\ data' = load_sample_data(rng)
    /\ calls' = calls + 1
    /\ UNCHANGED <<rng, energy_file, pipelineVars, dashVars>>

\* loader.save_data(data, 'energy_data.csv')
SaveData ==
    /\ data # NoData
    /\ energy_file' = data
    /\ UNCHANGED <<rng, data, calls, pipelineVars, dashVars>>

\* data = loader.get_latest_data(): the file, or the sample, which it saves
GetLatestData ==
    /\ \/ /\ energy_file # NoData
          /\ data' = energy_file
          /\ UNCHANGED <<calls, energy_file>>
       \/ /\ energy_file = NoData
          /\ calls < MaxCalls
          /\ data' = load_sample_data(rng)
          /\ energy_file' = load_sample_data(rng)
          /\ calls' = calls + 1
    /\ UNCHANGED <<rng, pipelineVars, dashVars>>

NextLoader == LoadSampleData \/ SaveData \/ GetLatestData

LoaderSpec == InitLoader /\ [][NextLoader]_vars

(***************************************************************************)
(* The dashboard.  stations_df is the table the dashboard loads, by index  *)
(* label; a selected_oblast of "None" is None; the customdata of a point   *)
(* without customdata is NoCustomdata.                                     *)
(***************************************************************************)
NoCustomdata == 0 - 1

Station(power, sources, oblast, gppd, centroid) ==
    [power |-> power, sources |-> sources, oblast_name_en |-> oblast,
     gppd_overlap |-> gppd, centroid |-> centroid]

\* the stations loaded: plant:source is the set of the fuels between ";",
\* empty when missing
stations_df ==
    [i \in 0..5 |->
        CASE i = 0 -> Station("plant", {"solar"}, "Lviv", TRUE, <<24, 49>>)
          [] i = 1 -> Station("plant", {"coal"}, "Lviv", FALSE, <<25, 50>>)
          [] i = 2 -> Station("plant", {"nuclear"}, "Kiev", TRUE, <<30, 51>>)
          [] i = 3 -> Station("substation", {}, "Kiev", FALSE, <<31, 50>>)
          [] i = 4 -> Station("plant", {"coal", "biomass"}, NaN, TRUE, <<36, 46>>)
          [] OTHER -> Station("plant", {"hydro"}, "Kiev", FALSE, <<30, 50>>)]

\* oblasts_gdf of the dashboard: the centroid of each oblast by its name
oblast_centroids ==
    [n \in {"Lviv", "Kiev"} |-> IF n = "Lviv" THEN <<24, 50>> ELSE <<30, 50>>]

\* bool(d) of a dict or None
Truthy(event) == ~event.is_none /\ event.keys # {}

\* bool(s) of a string or None
TruthyName(name) == name # "None" /\ name # ""

\* default_map_figure(stations): the whole of Ukraine with every station
default_map_figure(stations) ==
    [view |-> "ukraine", center |-> <<31, 48>>, zoom |-> 5, markers |-> stations]

\* generate_map_figure(stations_df, oblasts_gdf, selected_oblast, click_data,
\* reset): the view, its centre and zoom and the stations drawn
generate_map_figure(stations, oblasts, name, click, reset_arg) ==
    IF reset_arg \/ (name = "None" /\ ~Truthy(click))
    THEN default_map_figure(stations)
    ELSE IF Truthy(click) /\ "points" \in click.keys /\ Len(click.points) > 0
    THEN IF click.points[1] # NoCustomdata /\ click.points[1] \in stations
         THEN [view |-> "station", center |-> stations_df[click.points[1]].centroid,
               zoom |-> 15, markers |-> stations]
         ELSE default_map_figure(stations)
    ELSE IF TruthyName(name) /\ name \in DOMAIN oblasts
    THEN [view |-> "oblast", center |-> oblasts[name], zoom |-> 7,
          markers |-> {i \in stations : stations_df[i].oblast_name_en = name}]
    ELSE default_map_figure(stations)

\* the values of selected_oblast drawn: None, the empty string, "all" of the
\* option All Ukraine, two oblasts of the file and one that is not in it
OblastChoices == {"None", "", "all", "Lviv", "Kiev", "Crimea"}

\* the click_data drawn: None, an empty dict, a dict without "points", no
\* point, a point without customdata, the points of stations 0, 3 and 4, and a
\* point whose customdata is no index label
ClickChoices ==
    {NoEvent, Event({}, <<>>), Event({"curveNumber"}, <<>>), Event({"points"}, <<>>),
     Event({"points"}, <<NoCustomdata>>), Event({"points"}, <<0>>),
     Event({"points"}, <<3>>), Event({"points"}, <<4, 0>>), Event({"points"}, <<7>>)}

InitMap ==
    /\ selected_oblast \in OblastChoices
    /\ click_data \in ClickChoices
    /\ reset \in BOOLEAN
    /\ figure = NoFigure
    /\ gppd_filter = FALSE
    /\ power_source_filter = "all"
    /\ substations_filter = TRUE
    /\ selected_data = NoEvent
    /\ table = <<>>
    /\ IdlePipeline
    /\ IdleLoader

\* fig = generate_map_figure(stations_df, oblasts_gdf, selected_oblast,
\* click_data, reset)
GenerateMapFigure ==
    /\ figure = NoFigure
    /\ figure' = generate_map_figure(DOMAIN stations_df, oblast_centroids,
                                     selected_oblast, click_data, reset)
    /\ UNCHANGED <<selected_oblast, click_data, reset, gppd_filter,
                   power_source_filter, substations_filter, selected_data, table,
                   pipelineVars, loaderVars>>

NextMap == GenerateMapFigure

MapSpec == InitMap /\ [][NextMap]_vars

(***************************************************************************)
(* The callbacks of the dashboard.  A table of stations is the sequence of *)
(* its rows, each the index label of the station in stations_df.           *)
(***************************************************************************)
thermal == {"coal", "gas", "oil", "diesel", "mazut", "biogas", "biomass", "wood", "waste"}

nuclear == {"nuclear"}

renewable == {"solar", "wind", "hydro"}

\* _apply_power_source_filter(df, filter_type, include_substations=False)
apply_power_source_filter(df, filter_type) ==
    IF filter_type = "all" THEN df
    ELSE LET plants_df == SelectSeq(df, LAMBDA i : stations_df[i].power = "plant")
         IN  CASE filter_type = "thermal" ->
                    SelectSeq(plants_df, LAMBDA i : stations_df[i].sources \cap thermal # {})
               [] filter_type = "nuclear" ->
                    SelectSeq(plants_df, LAMBDA i : stations_df[i].sources \cap nuclear # {})
               [] filter_type = "renewable" ->
                    SelectSeq(plants_df, LAMBDA i : stations_df[i].sources \cap renewable # {})
               [] OTHER -> plants_df

\* the GPPD, power source and substations filters, as update_map and
\* update_table apply them
apply_filters(df, gppd, source, substations) ==
    LET by_gppd == IF gppd THEN SelectSeq(df, LAMBDA i : stations_df[i].gppd_overlap) ELSE df
    IN  IF source # "all" THEN apply_power_source_filter(by_gppd, source)
        ELSE IF ~substations
        THEN SelectSeq(by_gppd, LAMBDA i : stations_df[i].power # "substation")
        ELSE by_gppd

\* stations_df.copy(): every row, in the order of the index
AllStations == [k \in 1..Cardinality(DOMAIN stations_df) |-> k - 1]

Range(seq) == {seq[k] : k \in 1..Len(seq)}

\* update_map(...) when triggered by the input named: the figure returned
update_map(triggered, name, click, gppd, source, substations) ==
    LET filtered_stations == Range(apply_filters(AllStations, gppd, source, substations))
    IN  IF triggered = "map-display.relayoutData"
        THEN IF TruthyName(name)
             THEN generate_map_figure(filtered_stations, oblast_centroids, name, NoEvent, TRUE)
             ELSE default_map_figure(filtered_stations)
        ELSE IF triggered = "oblast-dropdown.value"
        THEN generate_map_figure(filtered_stations, oblast_centroids, name, NoEvent, FALSE)
        ELSE IF triggered = "map-display.clickData" /\ Truthy(click)
        THEN generate_map_figure(filtered_stations, oblast_centroids, name, click, FALSE)
        ELSE generate_map_figure(filtered_stations, oblast_centroids, name, NoEvent, FALSE)

\* update_table(selected_oblast, gppd_filter, power_source_filter,
\* substations_filter, selected_data): the rows of the table
update_table(name, gppd, source, substations, selected) ==
    LET by_oblast ==
            IF TruthyName(name)
            THEN SelectSeq(AllStations, LAMBDA i : stations_df[i].oblast_name_en = name)
            ELSE AllStations
        df == apply_filters(by_oblast, gppd, source, substations)
        indices ==
            IF Truthy(selected) /\ "points" \in selected.keys
            THEN SelectSeq(selected.points, LAMBDA c : c \in DOMAIN stations_df)
            ELSE <<>>
    IN  IF indices # <<>> THEN indices ELSE df

\* the options of oblast-dropdown that are drawn, and "None" for a cleared
\* dropdown
DropdownValues == {"None", "all", "Lviv", "Kiev", "Crimea"}

\* the page after its initial callbacks
InitDash ==
    /\ selected_oblast = "None"
    /\ click_data = NoEvent
    /\ reset = FALSE
    /\ gppd_filter = FALSE
    /\ power_source_filter = "all"
    /\ substations_filter = TRUE
    /\ selected_data = NoEvent
    /\ figure = update_map("", "None", NoEvent, FALSE, "all", TRUE)
    /\ table = update_table("None", FALSE, "all", TRUE, NoEvent)
    /\ IdlePipeline
    /\ IdleLoader

\* the callbacks update_map and update_table that an input's change fires
Callbacks(triggered) ==
    /\ figure' = update_map(triggered, selected_oblast', click_data', gppd_filter',
                            power_source_filter', substations_filter')
    /\ table' = update_table(selected_oblast', gppd_filter', power_source_filter',
                             substations_filter', selected_data')
    /\ UNCHANGED <<click_data, reset, pipelineVars, loaderVars>>

\* the user picks an option of oblast-dropdown, or clears it
SelectOblast ==
    /\ \E v \in DropdownValues \ {selected_oblast} : selected_oblast' = v
    /\ UNCHANGED <<gppd_filter, power_source_filter, substations_filter, selected_data>>
    /\ Callbacks("oblast-dropdown.value")

\* the user switches gppd-filter: store_gppd_filter, then the callbacks
SwitchGppd ==
    /\ gppd_filter' = ~gppd_filter
    /\ UNCHANGED <<selected_oblast, power_source_filter, substations_filter, selected_data>>
    /\ Callbacks("gppd-filter-store.data")

\* the user switches substations-filter: store_substations_filter, then the
\* callbacks
SwitchSubstations ==
    /\ substations_filter' = ~substations_filter
    /\ UNCHANGED <<selected_oblast, gppd_filter, power_source_filter, selected_data>>
    /\ Callbacks("substations-filter-store.data")

\* the user clicks a power-source button: update_power_source_filter, then
\* the callbacks
ClickPowerSource ==
    /\ \E t \in {"all", "thermal", "nuclear", "renewable"} \ {power_source_filter} :
          power_source_filter' = t
    /\ UNCHANGED <<selected_oblast, gppd_filter, substations_filter, selected_data>>
    /\ Callbacks("power-source-filter-store.data")

\* the user draws a lasso around markers of the figure, around none, or
\* clears the selection
Lasso ==
    /\ \/ \E pts \in SeqsUpTo(figure.markers, MaxLasso) :
             /\ \A i, j \in 1..Len(pts) : i # j => pts[i] # pts[j]
             /\ selected_data' = Event({"points", "lassoPoints"}, pts)
       \/ selected_data' = NoEvent
    /\ selected_data' # selected_data
    /\ UNCHANGED <<selected_oblast, gppd_filter, power_source_filter, substations_filter>>
    /\ Callbacks("map-display.selectedData")

NextDash == SelectOblast \/ SwitchGppd \/ SwitchSubstations \/ ClickPowerSource \/ Lasso

DashSpec == InitDash /\ [][NextDash]_vars

(***************************************************************************)
(* Vocabulary of the properties.                                           *)
(***************************************************************************)
nbi == node_by_id(elements)

wbi == way_by_id(elements)

Ways == {i \in 1..Len(elements) : elements[i].type = "way"}

Relations == {i \in 1..Len(elements) : elements[i].type = "relation"}

\* the loop iteration of element i has started
Reached(i) == stage # "fetched" /\ i <= at

\* the loop iteration of element i has ended without raising
Iterated(i) == stage # "fetched" /\ i < at

\* the features in the builder's list that carry the id and type of element i
FeatureOf(i) ==
    {k \in 1..Len(features) :
        /\ features[k]["osm_type"] = elements[i].type
        /\ features[k]["osm_id"] = elements[i].id}

\* element i has exactly one feature, and its geometry is geom
Emits(i, geom) ==
    /\ Cardinality(FeatureOf(i)) = 1
    /\ \A k \in FeatureOf(i) : features[k]["geometry"] = geom

\* every node of way i that is in the node table has coordinates
HasCoords(nodes) == \A n \in {nodes[k] : k \in 1..Len(nodes)} :
    n \in DOMAIN nbi => nbi[n].lonlat # <<>>

\* the resolved coordinate sequence of way i
Resolved(i) == Coords(elements[i].nodes, nbi)

\* the resolved coordinate sequence of way i closes and has at least 4 points
ClosedRing(i) ==
    /\ HasCoords(elements[i].nodes)
    /\ Len(Resolved(i)) >= 4
    /\ Resolved(i)[1] = Resolved(i)[Len(Resolved(i))]

\* C1 as stated: for every way whose resolved coordinate sequence closes and
\* has at least 4 points, the builder produces a Polygon.
C1_ClosedWayGivesPolygon ==
    \A i \in Ways :
        Iterated(i) /\ ClosedRing(i) =>
            \E k \in FeatureOf(i) : features[k]["geometry"].kind = "Polygon"

\* C1 amended: for every way whose resolved coordinate sequence closes and has
\* at least 4 points, the builder's iteration appends exactly one feature, the
\* Polygon of these coordinates, when that ring is a valid polygon, and appends
\* no feature when it is not; it never appends a Line for such a way.
C1_ClosedWayGivesPolygonOrNothing ==
    \A i \in Ways :
        Iterated(i) /\ ClosedRing(i) =>
            IF RingValid(Resolved(i))
            THEN Emits(i, [kind |-> "Polygon", parts |-> <<Resolved(i)>>])
            ELSE FeatureOf(i) = {}

\* a batch was built in which one closed way gave a Polygon and another
\* closed way, whose ring is not a valid polygon, gave no feature
C1_Witness ==
    /\ stage = "built"
    /\ \E i \in Ways :
          /\ ClosedRing(i) /\ RingValid(Resolved(i))
          /\ \E k \in FeatureOf(i) : features[k]["geometry"].kind = "Polygon"
    /\ \E i \in Ways :
          ClosedRing(i) /\ ~RingValid(Resolved(i)) /\ FeatureOf(i) = {}

\* C2: for every way whose resolved coordinate sequence does not close or has
\* fewer than 4 points, the builder produces a Line when at least 2 references
\* resolve (a Line that fails the validity check may be discarded), and
\* produces no geometry, raising nothing, when fewer than 2 resolve.
C2_OpenWayGivesLineOrNothing ==
    \A i \in Ways :
        Reached(i) /\ HasCoords(elements[i].nodes) /\ ~ClosedRing(i) =>
            /\ Iterated(i)
            /\ IF Len(Resolved(i)) >= 2
               THEN \/ Emits(i, [kind |-> "LineString", parts |-> <<Resolved(i)>>])
                    \/ /\ Len(RemoveRepeated(Resolved(i))) < 2
                       /\ FeatureOf(i) = {}
               ELSE FeatureOf(i) = {}

\* the coordinate rings of the members of relation i that are ways with role
\* "outer" or "" found in the way table, in member order
OuterRings(i) ==
    LET taken == SelectSeq(elements[i].members,
                           LAMBDA m : /\ m.type = "way"
                                      /\ m.role \in {"outer", ""}
                                      /\ m.ref \in DOMAIN wbi)
    IN  [k \in 1..Len(taken) |-> Coords(wbi[taken[k].ref].nodes, nbi)]

\* those of them that build a valid polygon
ValidRings(i) ==
    SelectSeq(OuterRings(i), LAMBDA c : Len(c) >= 3 /\ RingValid(c))

\* the MultiPolygon of a sequence of rings
MultiOf(rings) ==
    [kind |-> "MultiPolygon", parts |-> [k \in 1..Len(rings) |-> CloseRing(rings[k])]]

PolygonOf(ring) == [kind |-> "Polygon", parts |-> <<CloseRing(ring)>>]

\* C3 as stated: a relation with N valid rings gives a MultiPolygon of all N
\* rings when N > 1, a Polygon when N = 1 and no feature when N = 0.
C3_RelationByRingCount ==
    \A i \in Relations :
        Iterated(i) =>
            LET rings == ValidRings(i)
            IN  CASE Len(rings) = 0 -> FeatureOf(i) = {}
                  [] Len(rings) = 1 -> Emits(i, PolygonOf(rings[1]))
                  [] OTHER -> Emits(i, MultiOf(rings))

\* C3 amended: a relation with N valid rings gives a Polygon when N = 1, no
\* feature when N = 0, and when N > 1 the MultiPolygon of all N rings if that
\* MultiPolygon is valid (the rings' interiors are pairwise disjoint and their
\* boundaries meet in finitely many points) and no feature if it is not.
C3_RelationByRingCountIfValid ==
    \A i \in Relations :
        Iterated(i) =>
            LET rings == ValidRings(i)
            IN  CASE Len(rings) = 0 -> FeatureOf(i) = {}
                  [] Len(rings) = 1 -> Emits(i, PolygonOf(rings[1]))
                  [] OTHER ->
                        IF is_valid(MultiOf(rings))
                        THEN Emits(i, MultiOf(rings))
                        ELSE FeatureOf(i) = {}

\* a batch was built whose relation has two valid rings and gave a MultiPolygon
C3_Witness ==
    /\ stage = "built"
    /\ \E i \in Relations :
          /\ Len(ValidRings(i)) = 2
          /\ \E k \in FeatureOf(i) : features[k]["geometry"].kind = "MultiPolygon"

\* way w references a node id that is not in the node table
MissingNodeRef(w) == \E k \in 1..Len(w.nodes) : w.nodes[k] \notin DOMAIN nbi

\* the rings of relation i built from member ways without a missing node
\* reference
SoundRings(i) ==
    LET taken == SelectSeq(elements[i].members,
                           LAMBDA m : /\ m.type = "way"
                                      /\ m.role \in {"outer", ""}
                                      /\ m.ref \in DOMAIN wbi
                                      /\ ~MissingNodeRef(wbi[m.ref]))
        rings == [k \in 1..Len(taken) |-> Coords(wbi[taken[k].ref].nodes, nbi)]
    IN  SelectSeq(rings, LAMBDA c : Len(c) >= 3 /\ RingValid(c))

\* C4: a member way that references a node id missing from the node table
\* contributes no ring: a relation of two outer ways, one forming a valid ring
\* and one with an unresolvable node reference, gives the Polygon of the good
\* way only.
C4_BadMemberContributesNoRing ==
    \A i \in Relations :
        /\ Iterated(i)
        /\ Len(OuterRings(i)) = 2
        /\ Len(SoundRings(i)) = 1
        /\ \E m \in {elements[i].members[k] : k \in 1..Len(elements[i].members)} :
              m.type = "way" /\ m.ref \in DOMAIN wbi /\ MissingNodeRef(wbi[m.ref])
        => Emits(i, PolygonOf(SoundRings(i)[1]))

\* the rows of a frame all carry a valid, non-empty geometry
GeometriesSound(gdf) ==
    \A k \in 1..Len(gdf.rows) :
        /\ gdf.rows[k].vals["geometry"] # None
        /\ is_valid(gdf.rows[k].vals["geometry"])
        /\ ~is_empty(gdf.rows[k].vals["geometry"])

\* the geometry the type branches construct for element i is invalid or empty
Degenerate(i) ==
    \E r \in {BuildGeom(elements[i], nbi, wbi)} :
        /\ r.exc = "none"
        /\ r.geom # None
        /\ ~is_valid(r.geom) \/ is_empty(r.geom)

\* C5: at every stage (builder output, filter output, region assigner output,
\* matcher output) each record carries a geometry that is valid and non-empty,
\* and an element whose constructed geometry is invalid or empty is not in the
\* builder's output.
C5_GeometryValidNonEmpty ==
    /\ \A k \in 1..Len(features) :
          /\ is_valid(features[k]["geometry"])
          /\ ~is_empty(features[k]["geometry"])
    /\ GeometriesSound(built)
    /\ GeometriesSound(filtered)
    /\ GeometriesSound(assigned)
    /\ GeometriesSound(matched)
    /\ \A i \in 1..Len(elements) : Iterated(i) /\ Degenerate(i) => FeatureOf(i) = {}

\* the pipeline ran to the matcher with records, for a batch whose relation
\* constructed an invalid MultiPolygon that is in no output
C5_Witness ==
    /\ stage = "matched"
    /\ Len(matched.rows) >= 1
    /\ \E i \in Relations :
          /\ Degenerate(i)
          /\ BuildGeom(elements[i], nbi, wbi).geom.kind = "MultiPolygon"
          /\ FeatureOf(i) = {}

\* C6: whatever element is malformed, the builder terminates normally and
\* emits every element that has a valid geometry of its own.
C6_BuilderNeverRaises ==
    /\ stage # "build_raised"
    /\ stage = "built" =>
          \A i \in 1..Len(elements) :
              LET r == BuildGeom(elements[i], nbi, wbi)
              IN  r.exc = "none" /\ Keep(r.geom) => Emits(i, r.geom)

(***************************************************************************)
(* Properties of filter_power_stations.                                    *)
(***************************************************************************)
\* the value of column col in row i of a frame, NaN without the column
ValueOf(gdf, i, col) ==
    IF col \in gdf.columns THEN gdf.rows[i].vals[col] ELSE NaN

\* the keep rule: a fuel-source tag, or substation = transmission
KeepRule(gdf, i) ==
    \/ ValueOf(gdf, i, "plant:source") # NaN
    \/ ValueOf(gdf, i, "substation") = "transmission"

KeyOf(row) == <<row.vals["osm_id"], row.vals["osm_type"]>>

FilterActed == stage \in {"filtered", "filter_raised", "refiltered", "refilter_raised"}

FilterReturned == stage \in {"filtered", "refiltered", "refilter_raised"}

\* C7: the filter keeps an element if and only if it has a fuel-source tag or
\* its substation tag is "transmission", whatever its geometry: an element
\* that passes is in the output (as the record of its (osm_id, osm_type)), an
\* element that does not pass is not.
C7_KeptIffKeepRule ==
    FilterActed =>
        \A i \in 1..Len(built.rows) :
            IF KeepRule(built, i)
            THEN /\ FilterReturned
                 /\ \E k \in 1..Len(filtered.rows) :
                       KeyOf(filtered.rows[k]) = KeyOf(built.rows[i])
            ELSE \A k \in 1..Len(filtered.rows) :
                       filtered.rows[k].index # built.rows[i].index

\* the first row of the input that has the key of row i and passes the keep rule
FirstPassing(gdf, key) ==
    CHOOSE i \in 1..Len(gdf.rows) :
        /\ KeyOf(gdf.rows[i]) = key /\ KeepRule(gdf, i)
        /\ \A j \in 1..(i - 1) : ~(KeyOf(gdf.rows[j]) = key /\ KeepRule(gdf, j))

\* C8: in the filter's output every (osm_id, osm_type) pair occurs at most
\* once, and the record kept for a pair is the first record of the input, in
\* input order, that has the pair and passes the keep rule.
C8_UniqueKeysFirstKept ==
    FilterReturned =>
        /\ \A k, l \in 1..Len(filtered.rows) :
              KeyOf(filtered.rows[k]) = KeyOf(filtered.rows[l]) => k = l
        /\ \A k \in 1..Len(filtered.rows) :
              LET key == KeyOf(filtered.rows[k])
              IN  /\ \E i \in 1..Len(built.rows) :
                        KeyOf(built.rows[i]) = key /\ KeepRule(built, i)
                  /\ filtered.rows[k].index = built.rows[FirstPassing(built, key)].index
                  /\ filtered.rows[k].vals["geometry"] =
                        built.rows[FirstPassing(built, key)].vals["geometry"]
                  /\ \A c \in filtered.columns \ {"station_name_en"} :
                        filtered.rows[k].vals[c] =
                            built.rows[FirstPassing(built, key)].vals[c]

\* the filter returned for an input in which a pair occurs twice, the second
\* record passing the keep rule, and the output holds the first passing one
C8_Witness ==
    /\ stage = "filtered"
    /\ Len(filtered.rows) >= 1
    /\ \E i, j \in 1..Len(built.rows) :
          /\ i < j
          /\ KeyOf(built.rows[i]) = KeyOf(built.rows[j])
          /\ KeepRule(built, i) /\ KeepRule(built, j)
          /\ built.rows[i].vals["geometry"] # built.rows[j].vals["geometry"]

\* C9 as stated: applying the filter to its own output gives the same records
\* with the same attributes.
C9_RefilterSameFrame ==
    stage \in {"refiltered", "refilter_raised"} =>
        stage = "refiltered" /\ refiltered = filtered

\* C9 amended: applying the filter to its own output raises nothing and gives
\* the same records in the same order, with the same index labels, geometry
\* and attributes, except that the second output has no station_name_en
\* column (the renamed English name is not on the allow-list).
C9_RefilterSameRecords ==
    stage \in {"refiltered", "refilter_raised"} =>
        /\ stage = "refiltered"
        /\ refiltered.columns = filtered.columns \ {"station_name_en"}
        /\ Len(refiltered.rows) = Len(filtered.rows)
        /\ \A k \in 1..Len(filtered.rows) :
              /\ refiltered.rows[k].index = filtered.rows[k].index
              /\ \A c \in refiltered.columns :
                    refiltered.rows[k].vals[c] = filtered.rows[k].vals[c]

\* the filter was applied to its own output, which had records and an
\* English-name column
C9_Witness ==
    /\ stage = "refiltered"
    /\ Len(filtered.rows) >= 1
    /\ "station_name_en" \in filtered.columns
    /\ Len(refiltered.rows) = Len(filtered.rows)

\* C10: whichever allow-listed columns the input lacks, the filter raises no
\* error and returns the allow-listed columns the input has.
C10_AbsentColumnsOmitted ==
    FilterActed =>
        /\ stage # "filter_raised"
        /\ filtered.columns = {Rename(c) : c \in built.columns \cap cols_to_keep}

(***************************************************************************)
(* Properties of assign_oblasts.                                           *)
(***************************************************************************)
\* assign_oblasts has returned
AssignReturned == oblasts_gdf # NoOblasts

\* the geometry of station i of the frame given to assign_oblasts
StationGeom(i) == filtered.rows[i].vals["geometry"]

\* the rows of the frame assign_oblasts returned that carry the index label of
\* station i
RowsOf(i) ==
    {k \in 1..Len(assigned.rows) : assigned.rows[k].index = filtered.rows[i].index}

\* the names of the regions whose polygon station i is within
NamesWithin(i) ==
    {oblasts_gdf.rows[j].oblast_name_en :
        j \in {r \in 1..Len(oblasts_gdf.rows) :
                  within(StationGeom(i), oblasts_gdf.rows[r].geometry)}}

\* the names of the regions whose polygon station i intersects
NamesIntersecting(i) ==
    {oblasts_gdf.rows[j].oblast_name_en :
        j \in {r \in 1..Len(oblasts_gdf.rows) :
                  intersects(StationGeom(i), oblasts_gdf.rows[r].geometry)}}

RegionOf(k) == assigned.rows[k].vals["oblast_name_en"]

\* C11: a facility within a region polygon carries that region's name (pass
\* 1), also when it intersects other regions (pass 2 does not change it); a
\* facility within no polygon that intersects some carries the name of a
\* region it intersects (pass 2).
C11_WithinThenIntersects ==
    AssignReturned =>
        \A i \in 1..Len(filtered.rows) :
            /\ \A name \in NamesWithin(i) : \E k \in RowsOf(i) : RegionOf(k) = name
            /\ NamesWithin(i) # {} =>
                  \A k \in RowsOf(i) : RegionOf(k) \in NamesWithin(i)
            /\ NamesWithin(i) = {} /\ NamesIntersecting(i) # {} =>
                  \A k \in RowsOf(i) : RegionOf(k) \in NamesIntersecting(i)

\* regions were assigned to a facility within one region that touches
\* another, and to a facility that straddles the border of two regions and is
\* within neither
C11_Witness ==
    /\ stage = "assigned"
    /\ \E i \in 1..Len(filtered.rows) :
          /\ NamesWithin(i) # {}
          /\ NamesIntersecting(i) # NamesWithin(i)
          /\ \A k \in RowsOf(i) : RegionOf(k) \in NamesWithin(i)
    /\ \E i \in 1..Len(filtered.rows) :
          /\ NamesWithin(i) = {}
          /\ Cardinality(NamesIntersecting(i)) = 2
          /\ \A k \in RowsOf(i) : RegionOf(k) \in NamesIntersecting(i)

\* C12: after assign_oblasts returns, no facility whose geometry intersects at
\* least one region polygon has a null region name.
C12_IntersectingHasRegion ==
    AssignReturned =>
        \A i \in 1..Len(filtered.rows) :
            NamesIntersecting(i) # {} =>
                /\ RowsOf(i) # {}
                /\ \A k \in RowsOf(i) : RegionOf(k) # NaN

\* regions were assigned to a facility that is within no region and intersects
\* one
C12_Witness ==
    /\ stage = "assigned"
    /\ \E i \in 1..Len(filtered.rows) :
          /\ NamesWithin(i) = {}
          /\ NamesIntersecting(i) # {}
          /\ \A k \in RowsOf(i) : RegionOf(k) # NaN

\* C13: a facility that is within no region polygon and intersects none is in
\* the output of assign_oblasts, once, with a null region name; every facility
\* of the input is in the output with its attributes.
C13_UnmatchedKeptWithNull ==
    AssignReturned =>
        \A i \in 1..Len(filtered.rows) :
            /\ RowsOf(i) # {}
            /\ \A k \in RowsOf(i) : \A c \in filtered.columns :
                   assigned.rows[k].vals[c] = filtered.rows[i].vals[c]
            /\ NamesIntersecting(i) = {} =>
                   /\ Cardinality(RowsOf(i)) = 1
                   /\ \A k \in RowsOf(i) : RegionOf(k) = NaN

\* regions were assigned to facilities of which one intersects no region
C13_Witness ==
    /\ stage = "assigned"
    /\ \E i \in 1..Len(filtered.rows) :
          /\ NamesIntersecting(i) = {}
          /\ RowsOf(i) # {}
          /\ \A k \in RowsOf(i) : RegionOf(k) = NaN

(***************************************************************************)
(* Properties of match_with_gppd.                                          *)
(***************************************************************************)
\* match_with_gppd has returned
MatchReturned == stage \in {"matched", "saved", "save_raised"}

\* the reference points of the country of interest, in EPSG:4326
UkrainePoints ==
    {<<df_gppd[i].longitude, df_gppd[i].latitude>> :
        i \in {j \in 1..Len(df_gppd) : df_gppd[j].country_long = "Ukraine"}}

\* the reference points that intersect facility k buffered by r units of
\* EPSG:3857
PointsNear(k, r) ==
    {p \in UkrainePoints :
        BufferIntersects(to_crs(assigned.rows[k].vals["geometry"],
                                "EPSG:4326", "EPSG:3857"),
                         r, ToMercator(p))}

Flag(k) == matched.rows[k].vals["gppd_overlap"]

\* C14: the flag of a facility is true if and only if at least one reference
\* point of the country of interest intersects the facility's geometry
\* buffered by 500 units of the metric projection, whether one point or
\* several match.
C14_FlagIffPointInBuffer ==
    MatchReturned =>
        \A k \in 1..Len(assigned.rows) :
            \A l \in 1..Len(matched.rows) :
                matched.rows[l].index = assigned.rows[k].index =>
                    Flag(l) = (PointsNear(k, BufferRadius) # {})

\* the matcher returned with a facility that two reference points match and
\* that is flagged true once
C14_Witness ==
    /\ stage = "matched"
    /\ \E k \in 1..Len(matched.rows) :
          /\ Cardinality(PointsNear(k, BufferRadius)) = 2
          /\ Flag(k) = TRUE

\* C15: match_with_gppd returns the facilities it was given, one for one with
\* their index labels and attributes, and every one has a boolean flag that
\* is false when no reference point matched.
C15_SameFacilitiesBooleanFlag ==
    MatchReturned =>
        /\ Len(matched.rows) = Len(assigned.rows)
        /\ \A k \in 1..Len(assigned.rows) :
              /\ matched.rows[k].index = assigned.rows[k].index
              /\ \A c \in assigned.columns :
                    matched.rows[k].vals[c] = assigned.rows[k].vals[c]
              /\ Flag(k) \in BOOLEAN
              /\ PointsNear(k, BufferRadius) = {} => Flag(k) = FALSE

\* the matcher returned with a facility that two reference points match and a
\* facility that none matches
C15_Witness ==
    /\ stage = "matched"
    /\ \E k \in 1..Len(matched.rows) :
          /\ Cardinality(PointsNear(k, BufferRadius)) = 2
          /\ Flag(k) = TRUE
    /\ \E k \in 1..Len(matched.rows) :
          /\ UkrainePoints # {}
          /\ PointsNear(k, BufferRadius) = {}
          /\ Flag(k) = FALSE

\* the buffer radii compared
Radii == {0, 250, BufferRadius, 750, 1000}

\* the facilities flagged with buffer radius r
FlaggedAt(r) == {k \in 1..Len(assigned.rows) : PointsNear(k, r) # {}}

\* C16: for the facilities and the reference points of a run, the facilities
\* flagged with radius r1 are flagged with every radius r2 >= r1, the flags
\* of the run being those of radius 500.
C16_FlagMonotonicInRadius ==
    MatchReturned =>
        /\ \A r1, r2 \in Radii : r1 <= r2 => FlaggedAt(r1) \subseteq FlaggedAt(r2)
        /\ FlaggedAt(BufferRadius) = {k \in 1..Len(matched.rows) : Flag(k) = TRUE}

\* the matcher returned with a facility that is not flagged with radius 500
\* and is flagged with radius 750
C16_Witness ==
    /\ stage = "matched"
    /\ FlaggedAt(BufferRadius) # FlaggedAt(750)
    /\ FlaggedAt(250) # FlaggedAt(BufferRadius)

\* metres on the ground of one coordinate unit (0.001 degree) near 50 degrees
\* north: of longitude (rounded up) and of latitude
GroundX == 72
GroundY == 111

ToGround(p) == <<p[1] * GroundX, p[2] * GroundY>>

\* the reference points at most d metres on the ground away from facility k
PointsWithinMetres(k, d) ==
    {p \in UkrainePoints :
        BufferIntersects(
            [kind |-> assigned.rows[k].vals["geometry"].kind,
             parts |-> [i \in 1..Len(assigned.rows[k].vals["geometry"].parts) |->
                          [n \in 1..Len(assigned.rows[k].vals["geometry"].parts[i]) |->
                              ToGround(assigned.rows[k].vals["geometry"].parts[i][n])]]],
            d, ToGround(p))}

\* C17: a facility with a reference point at most 400 metres away on the
\* ground is flagged true, and a facility whose reference points are all more
\* than 600 metres away is flagged false.
C17_GroundThreshold ==
    MatchReturned =>
        \A k \in 1..Len(matched.rows) :
            /\ PointsWithinMetres(k, 400) # {} => Flag(k) = TRUE
            /\ PointsWithinMetres(k, 600) = {} => Flag(k) = FALSE

(***************************************************************************)
(* Properties of main() and of fetch_overpass_data.                        *)
(***************************************************************************)
\* the request failed: no answer, or an answer whose status is not 2xx
Failed(resp) ==
    resp.outcome # "response" \/ ~(200 <= resp.status /\ resp.status < 300)

\* the run was aborted by a network operation
NetworkAborted == stage \in {"fetch_raised", "assign_raised", "match_raised"}

\* every network operation of main() has succeeded
NetworkDone ==
    /\ Len(requests) = 1 + Len(critical_relations)
    /\ \A k \in 1..Len(requests) :
           fetch_overpass_data(requests[k].response).exc = "none"
    /\ AssignReturned
    /\ df_gppd # <<>>

\* C18: when a network operation of main() fails (the bulk query, a query of
\* a critical relation, the download of the region boundaries, the download
\* of the reference database), the run ends with that error and no output
\* file has been written; a file is written only after every network
\* operation has succeeded.
C18_NoWriteBeforeNetworkDone ==
    /\ NetworkAborted => written = {} /\ exc # "none"
    /\ written # {} => NetworkDone

C18_Witness ==
    /\ stage = "match_raised"
    /\ Len(requests) = 1 + Len(critical_relations)
    /\ AssignReturned
    /\ written = {}

\* C19: a call of fetch_overpass_data makes one HTTP request, with a timeout
\* of 180 seconds, and none after it; a request that timed out, or whose
\* answer has a status outside 200..299, is the last request of the run, and
\* the run ended with the error the call raised instead of data.
C19_OneRequestRaisesUnless2xx ==
    /\ Len(requests) <= 1 + Len(critical_relations)
    /\ \A k \in 1..Len(requests) :
          /\ requests[k].timeout = OverpassTimeout
          /\ Failed(requests[k].response) =>
                 k = Len(requests) /\ stage = "fetch_raised" /\ exc # "none"

(***************************************************************************)
(* Properties of the node branch of the builder.                           *)
(***************************************************************************)
Nodes == {i \in 1..Len(elements) : elements[i].type = "node"}

\* the rows of the filtered frame that come from the scenario node
ScenarioRows ==
    {k \in 1..Len(filtered.rows) :
        /\ filtered.rows[k].vals["osm_type"] = "node"
        /\ filtered.rows[k].vals["osm_id"] = ScenarioNode.id}

\* C20: a node with both coordinates yields exactly one feature, the Point
\* whose x is its longitude and whose y is its latitude, and a node without
\* coordinates yields no feature; the scenario node (power=plant,
\* plant:source=solar, longitude 30, latitude 50) in a batch of nodes passes
\* the builder and the filter without an error, as exactly one row with the
\* Point (30, 50), the class "plant" and the fuel source "solar".
C20_NodePointLonLat ==
    /\ \A i \in Nodes :
          Iterated(i) =>
             IF elements[i].lonlat # <<>>
             THEN Emits(i, Point(elements[i].lonlat[1], elements[i].lonlat[2]))
             ELSE FeatureOf(i) = {}
    /\ (elements \in NodeBatches /\ elements[1] = ScenarioNode
           /\ stage \notin {"fetched", "built"}) =>
          /\ stage \notin {"build_raised", "filter_raised"}
          /\ Len(filtered.rows) = 1
          /\ ScenarioRows = {1}
          /\ filtered.rows[1].vals["geometry"] = Point(30, 50)
          /\ filtered.rows[1].vals["power"] = "plant"
          /\ filtered.rows[1].vals["plant:source"] = "solar"

C20_Witness ==
    /\ elements = <<ScenarioNode, Node(2, <<>>, PlantTags("wind"))>>
    /\ stage = "filtered"
    /\ FeatureOf(2) = {}
    /\ ScenarioRows = {1}

Distinct(names) ==
    \A i, j \in 1..Len(names) : i # j => names[i] # names[j]

\* C22: when the names of the loaded boundary dataset are pairwise distinct,
\* the names of the region set assign_oblasts returns are pairwise distinct.
C22_NamesStayDistinct ==
    (AssignReturned /\ Distinct([j \in 1..Len(gadm.rows) |-> gadm.rows[j].NAME_1])) =>
        Distinct([j \in 1..Len(oblasts_gdf.rows) |-> oblasts_gdf.rows[j].oblast_name_en])

(***************************************************************************)
(* Properties of the records assign_oblasts returns.                       *)
(***************************************************************************)
\* the regions, by position in the returned region set, that station i
\* intersects
RegionsIntersecting(i) ==
    {r \in 1..Len(oblasts_gdf.rows) :
        intersects(StationGeom(i), oblasts_gdf.rows[r].geometry)}

\* the regions, by position, that station i is within
RegionsWithin(i) ==
    {r \in 1..Len(oblasts_gdf.rows) :
        within(StationGeom(i), oblasts_gdf.rows[r].geometry)}

Min(S) == CHOOSE x \in S : \A y \in S : x <= y

\* C25: a facility that is within no region and intersects several is in the
\* output of assign_oblasts exactly once, with the name of the first region,
\* in the order of the region set, that it intersects: assign_oblasts returns
\* for it, and the name is a function of the facility and the region set.
C25_FirstIntersectingRegion ==
    AssignReturned =>
        \A i \in 1..Len(filtered.rows) :
            (RegionsWithin(i) = {} /\ Cardinality(RegionsIntersecting(i)) >= 2) =>
                /\ Cardinality(RowsOf(i)) = 1
                /\ \A k \in RowsOf(i) :
                      RegionOf(k) =
                         oblasts_gdf.rows[Min(RegionsIntersecting(i))].oblast_name_en

\* regions were assigned to a facility that is within none and intersects two
\* regions of different names
C25_Witness ==
    /\ stage = "assigned"
    /\ \E i \in 1..Len(filtered.rows) :
          /\ RegionsWithin(i) = {}
          /\ Cardinality(NamesIntersecting(i)) = 2
          /\ \A k \in RowsOf(i) :
                RegionOf(k) = oblasts_gdf.rows[Min(RegionsIntersecting(i))].oblast_name_en

\* C26: the output of assign_oblasts has exactly one record for every
\* facility of the input, with the index labels of the input in their order.
C26_OneRecordPerFacility ==
    AssignReturned =>
        /\ Len(assigned.rows) = Len(filtered.rows)
        /\ \A i \in 1..Len(filtered.rows) :
              assigned.rows[i].index = filtered.rows[i].index

(***************************************************************************)
(* Properties of the fields of a feature.                                  *)
(***************************************************************************)
\* the elements of a batch of nodes that a feature is built from, in order:
\* the nodes with coordinates
Sources ==
    SelectSeq([i \in 1..Len(elements) |-> i], LAMBDA i : elements[i].lonlat # <<>>)

\* C27: in a batch of nodes, whatever the keys of their tags, the features
\* are those of the nodes with coordinates, in order, and each carries the id
\* and the type of its node and the Point that was constructed for it.
C27_IdTypeGeometryOfElement ==
    stage = "built" =>
        /\ Len(features) = Len(Sources)
        /\ \A k \in 1..Len(features) :
              /\ features[k]["osm_id"] = elements[Sources[k]].id
              /\ features[k]["osm_type"] = elements[Sources[k]].type
              /\ features[k]["geometry"] =
                    Point(elements[Sources[k]].lonlat[1], elements[Sources[k]].lonlat[2])

(***************************************************************************)
(* Properties of a combined input in which elements repeat.                *)
(***************************************************************************)
\* the elements that have the type and the id of element i
SameElement(i) ==
    {j \in 1..Len(elements) :
        elements[j].type = elements[i].type /\ elements[j].id = elements[i].id}

\* the last element of a type and an id
LastOf(type, id) ==
    CHOOSE i \in 1..Len(elements) :
        /\ elements[i].type = type /\ elements[i].id = id
        /\ \A j \in 1..Len(elements) :
              (elements[j].type = type /\ elements[j].id = id) => j <= i

\* element i has a feature in the builder's list
Emitting(i) == Keep(BuildGeom(elements[i], nbi, wbi).geom)

\* the index label of the row of element i in the frame the builder returned
IndexOf(i) == Cardinality({j \in 1..i : Emitting(j)}) - 1

\* element i passes the mask of the filter
Masked(i) ==
    \/ "plant:source" \in DOMAIN elements[i].tags
    \/ /\ "substation" \in DOMAIN elements[i].tags
       /\ elements[i].tags["substation"] = "transmission"

\* the rows of the filtered frame for the type and the id of element i
Persisted(i) ==
    {k \in 1..Len(filtered.rows) :
        /\ filtered.rows[k].vals["osm_type"] = elements[i].type
        /\ filtered.rows[k].vals["osm_id"] = elements[i].id}

\* the coordinates of the last node of each id in nodes
LastCoords(nodes) ==
    [k \in 1..Len(nodes) |-> elements[LastOf("node", nodes[k])].lonlat]

\* the ring of the last way with the id ref
LastRing(ref) == LastCoords(elements[LastOf("way", ref)].nodes)

\* the geometry of element i when references go to the last node and the
\* last way of an id
GeomByLast(i) ==
    CASE elements[i].type = "node" -> Point(elements[i].lonlat[1], elements[i].lonlat[2])
      [] elements[i].type = "way" -> Polygon(LastCoords(elements[i].nodes))
      [] OTHER -> Polygon(LastRing(elements[i].members[1].ref))

\* the first element, among those with the type and the id of element i, that
\* has a feature and passes the mask
FirstKept(i) == Min({j \in SameElement(i) : Emitting(j) /\ Masked(j)})

\* C28 as stated: the facility persisted for a type and an id is the one
\* built from the first element of that type and id in the combined input.
C28_FirstElementPersisted ==
    stage = "filtered" =>
        \A i \in 1..Len(elements) : \A k \in Persisted(i) :
            /\ Emitting(Min(SameElement(i)))
            /\ filtered.rows[k].index = IndexOf(Min(SameElement(i)))

\* C28: the facility persisted for a type and an id is the one built from
\* the first element of that type and id that has a feature and passes the
\* mask of the filter, and none is persisted when there is no such element;
\* its geometry is built from the last node and the last way of each id it
\* refers to.
C28_FirstKeptPersistedLastReferenced ==
    stage = "filtered" =>
        \A i \in 1..Len(elements) :
            IF \E j \in SameElement(i) : Emitting(j) /\ Masked(j)
            THEN /\ Cardinality(Persisted(i)) = 1
                 /\ \A k \in Persisted(i) :
                       /\ filtered.rows[k].index = IndexOf(FirstKept(i))
                       /\ filtered.rows[k].vals["plant:source"]
                             = elements[FirstKept(i)].tags["plant:source"]
                       /\ filtered.rows[k].vals["geometry"] = GeomByLast(FirstKept(i))
            ELSE Persisted(i) = {}

\* the filter returned for an input in which node 1 is a skeleton first and a
\* plant later, and way 1 is a plant whose node 1 was moved after it
C28_Witness ==
    /\ stage = "filtered"
    /\ \E i \in 1..Len(elements) :
          /\ elements[i].type = "node"
          /\ Persisted(i) # {}
          /\ FirstKept(i) # Min(SameElement(i))
    /\ \E i \in 1..Len(elements) :
          /\ elements[i].type = "way"
          /\ Persisted(i) # {}
          /\ elements[LastOf("node", 1)].lonlat # elements[1].lonlat

(***************************************************************************)
(* Properties of the frame match_with_gppd returns.                        *)
(***************************************************************************)
\* C29: a call of match_with_gppd leaves the frame it was given as it is, and
\* the frame it returns has the columns of the input and gppd_overlap, which
\* the input does not have, and in every record the geometry, the region
\* name and every other attribute of the input's record.
C29_OnlyFlagAdded ==
    [][(stage = "assigned" /\ stage' = "matched") =>
          /\ assigned' = assigned
          /\ "gppd_overlap" \notin assigned.columns
          /\ matched'.columns = assigned.columns \cup {"gppd_overlap"}
          /\ Len(matched'.rows) = Len(assigned.rows)
          /\ \A k \in 1..Len(assigned.rows) :
                /\ matched'.rows[k].index = assigned.rows[k].index
                /\ \A c \in assigned.columns :
                      matched'.rows[k].vals[c] = assigned.rows[k].vals[c]]_vars

\* match_with_gppd returned a facility that is a polygon, has a region name
\* and is flagged
C29_Witness ==
    /\ stage = "matched"
    /\ \E k \in 1..Len(matched.rows) :
          /\ matched.rows[k].vals["geometry"].kind = "Polygon"
          /\ matched.rows[k].vals["geometry"] = assigned.rows[k].vals["geometry"]
          /\ matched.rows[k].vals["oblast_name_en"] # NaN
          /\ Flag(k) = TRUE

(***************************************************************************)
(* Properties of DataLoader.                                               *)
(***************************************************************************)
\* C24: after every call of load_sample_data the table returned is not
\* empty, has exactly 365 rows, one for each day from the first, and has the
\* columns date, energy_production and energy_consumption.
C24_SampleHas365Days ==
    calls > 0 =>
        /\ data.rows # <<>>
        /\ Len(data.rows) = 365
        /\ \A k \in 1..Len(data.rows) : data.rows[k].date = k - 1
        /\ {"date", "energy_production", "energy_consumption"} \subseteq data.columns

\* load_sample_data was called more than once
C24_Witness ==
    /\ calls >= 2
    /\ Len(data.rows) = 365
    /\ energy_file = NoData

(***************************************************************************)
(* Properties of generate_map_figure.                                      *)
(***************************************************************************)
\* click_data resolves to a station of stations_df
ClickResolves ==
    /\ Truthy(click_data) /\ "points" \in click_data.keys
    /\ Len(click_data.points) > 0
    /\ click_data.points[1] \in DOMAIN stations_df

\* C23: the view is chosen by strict priority: with reset the whole of
\* Ukraine; otherwise, with a click that resolves to a station, that station;
\* otherwise, with a selected oblast that is in oblasts_gdf, that oblast, also
\* when there is a click that resolves to no station; otherwise the whole of
\* Ukraine.
C23_ViewByPriority ==
    figure # NoFigure =>
        figure.view =
            IF reset THEN "ukraine"
            ELSE IF ClickResolves THEN "station"
            ELSE IF selected_oblast \in DOMAIN oblast_centroids THEN "oblast"
            ELSE "ukraine"

(***************************************************************************)
(* Properties of update_table.                                             *)
(***************************************************************************)
\* station i satisfies the filters that are active
SatisfiesFilters(i) ==
    /\ selected_oblast \in {"None", "all"}
          \/ stations_df[i].oblast_name_en = selected_oblast
    /\ gppd_filter => stations_df[i].gppd_overlap
    /\ CASE power_source_filter = "thermal" ->
               stations_df[i].power = "plant" /\ stations_df[i].sources \cap thermal # {}
          [] power_source_filter = "nuclear" ->
               stations_df[i].power = "plant" /\ stations_df[i].sources \cap nuclear # {}
          [] power_source_filter = "renewable" ->
               stations_df[i].power = "plant" /\ stations_df[i].sources \cap renewable # {}
          [] OTHER -> substations_filter \/ stations_df[i].power # "substation"

\* the stations of the lasso selection, when there is one
LassoStations ==
    IF Truthy(selected_data) /\ "points" \in selected_data.keys
    THEN Range(selected_data.points) \cap DOMAIN stations_df
    ELSE {}

\* C30: after any sequence of dropdown, switch, button and lasso events the
\* rows of the table are the stations that satisfy every active filter, where
\* All Ukraine and no selection restrict no oblast, narrowed to the lasso
\* selection when there is one; no row is a station that a filter excludes.
C30_TableIsFilteredStations ==
    Range(table) =
        {i \in DOMAIN stations_df :
            /\ SatisfiesFilters(i)
            /\ LassoStations # {} => i \in LassoStations}

=============================================================================
